---- MODULE Spec2Model ----
(***************************************************************************)
(* TinyTCP: the connection control block (TCB), the three-way and four-way *)
(* handshakes, data transfer and the retransmission queue of               *)
(* internal/tcp/tcp.go, the segment header of internal/packet, and two     *)
(* endpoints that exchange the segments the operations emit.               *)
(*                                                                         *)
(* Every Go method is an operator from the TCB (and the call's arguments)  *)
(* to a result [tcb, out, err]: the TCB after the call, the header the     *)
(* call returns (NoHeader for nil) and the error ("" for nil).  The        *)
(* actions apply these operators to one of the two endpoints.              *)
(***************************************************************************)
EXTENDS Integers, Sequences, FiniteSets, TLC

VARIABLES
    tcb,      \* tcb[e]: the TCB of endpoint e
    chan,     \* chan[e]: the segments in flight to endpoint e, oldest first
    lastOp,   \* the last call that acted on a TCB or consumed a segment
    hist,     \* hist[e]: the states tcb[e].State has gone through
    now,      \* the clock read by time.Now()
    hdr,      \* a header under test (flag helpers)
    probe,    \* the last HasFlag question asked of hdr and its answer
    rq,       \* a RetransmissionQueue of its own: its entries and its mutex
    thr,      \* thr[th]: the queue call thread th is in, and its locals
    qcall,    \* the last queue call that returned
    lin,      \* the entries after the calls that returned, made one at a time
    obs,      \* what the last call on a single TCB was made on and returned
    sock,     \* the fields of a TinySocket
    gor       \* gor[g]: the socket call goroutine g is in, and what its last call returned

vars == <<tcb, chan, lastOp, hist, now, hdr, probe, rq, thr, qcall, lin, obs, sock, gor>>

\* the variables of the queue of its own and its callers
queueVars == <<rq, thr, qcall, lin>>

\* the variables of the socket facade and its callers
socketVars == <<sock, gor>>

\* the variables of the TCBs, their channel, clock and queue
tcpVars == <<tcb, chan, lastOp, hist, now, hdr, probe, queueVars, obs>>

----------------------------------------------------------------------------
(* Bounds of the model *)

\* sequence numbers are SeqBits wide here (uint32 in the source)
SeqBits == 4

\* each endpoint sends at most MaxBuf payload bytes in all
MaxBuf == 2

\* the application adds at most MaxAdds entries to the queue of its own
\* (and none after a FIN)
MaxAdds == 2

\* the clock stops at MaxClock
MaxClock == 2

SeqMod == 2 ^ SeqBits

SeqNums == 0 .. (SeqMod - 1)

\* uint32 addition
Plus(a, b) == (a + b) % SeqMod

\* the initial sequence numbers GenerateISN draws in the two-endpoint model
\* with data transfer: one far from the wrap, and one whose SYN takes the
\* last number but one, so that the first data byte (or the FIN) takes the
\* last number and SendNext wraps to 0.  The handshake-only models draw
\* from all of SeqNums.
ISNs == { 0, SeqMod - 2 }

\* the payloads handed to Send
Payloads == { <<1>>, <<2, 3>> }

Endpoints == {"client", "server"}

Peer(e) == IF e = "client" THEN "server" ELSE "client"

----------------------------------------------------------------------------
(* internal/packet: the segment header *)

FlagFIN == 1
FlagSYN == 2
FlagRST == 4
FlagPSH == 8
FlagACK == 16
FlagURG == 32

AllFlags == {FlagFIN, FlagSYN, FlagRST, FlagPSH, FlagACK, FlagURG}

\* Go's | on unsigned integers
RECURSIVE BitOr(_, _)
BitOr(a, b) ==
    IF a = 0 THEN b
    ELSE IF b = 0 THEN a
    ELSE (IF (a % 2 = 1) \/ (b % 2 = 1) THEN 1 ELSE 0) + 2 * BitOr(a \div 2, b \div 2)

\* Go's & on unsigned integers
RECURSIVE BitAnd(_, _)
BitAnd(a, b) ==
    IF a = 0 \/ b = 0 THEN 0
    ELSE (IF (a % 2 = 1) /\ (b % 2 = 1) THEN 1 ELSE 0) + 2 * BitAnd(a \div 2, b \div 2)

DefaultDataOffset == 5
DefaultWindowSize == 65535

NewTCPHeader(srcPort, dstPort) ==
    [ SourcePort      |-> srcPort,
      DestinationPort |-> dstPort,
      SequenceNumber  |-> 0,
      AckNumber       |-> 0,
      DataOffset      |-> DefaultDataOffset,
      Reserved        |-> 0,
      Flags           |-> 0,
      WindowSize      |-> DefaultWindowSize,
      Checksum        |-> 0,
      UrgentPointer   |-> 0 ]

SetFlag(h, flag) == [h EXCEPT !.Flags = BitOr(@, flag)]

HasFlag(h, flag) == BitAnd(h.Flags, flag) # 0

HeaderLength(h) == h.DataOffset * 4

\* a nil *packet.TCPHeader
NoHeader == [ nil |-> TRUE ]

----------------------------------------------------------------------------
(* internal/socket: the connection states *)

StateClosed      == "CLOSED"
StateListen      == "LISTEN"
StateSynSent     == "SYN_SENT"
StateSynReceived == "SYN_RECEIVED"
StateEstablished == "ESTABLISHED"
StateFinWait1    == "FIN_WAIT_1"
StateFinWait2    == "FIN_WAIT_2"
StateCloseWait   == "CLOSE_WAIT"
StateClosing     == "CLOSING"
StateLastAck     == "LAST_ACK"
StateTimeWait    == "TIME_WAIT"

SocketState ==
    { StateClosed, StateListen, StateSynSent, StateSynReceived, StateEstablished,
      StateFinWait1, StateFinWait2, StateCloseWait, StateClosing, StateLastAck,
      StateTimeWait }

----------------------------------------------------------------------------
(* internal/tcp: the retransmission queue *)

NewRetransmissionQueue == << >>

Add(entries, header, data, t) ==
    Append(entries, [ Header |-> header, Data |-> data, SentTime |-> t, Attempts |-> 1 ])

\* seqEnd of Remove: one past the last sequence number the entry occupies
SeqEnd(entry) ==
    LET seqEnd == Plus(entry.Header.SequenceNumber, Len(entry.Data))
    IN  IF HasFlag(entry.Header, FlagSYN) \/ HasFlag(entry.Header, FlagFIN)
        THEN Plus(seqEnd, 1)
        ELSE seqEnd

\* Remove with <= for <
RemoveKeepsAcked(entries, ackNumber) ==
    SelectSeq(entries, LAMBDA entry : ackNumber <= SeqEnd(entry))

Remove(entries, ackNumber) ==
    SelectSeq(entries, LAMBDA entry : ackNumber < SeqEnd(entry))

\* the condition of GetTimeoutEntries' loop with >= for >
TimedOutAtTimeout(entry, timeout, maxAttempts, clock) ==
    clock - entry.SentTime >= timeout /\ entry.Attempts < maxAttempts

\* the condition of GetTimeoutEntries' loop with <= for <
TimedOutOnceMore(entry, timeout, maxAttempts, clock) ==
    clock - entry.SentTime > timeout /\ entry.Attempts <= maxAttempts

\* the condition of GetTimeoutEntries' loop: clock is what time.Now() returned
TimedOut(entry, timeout, maxAttempts, clock) ==
    clock - entry.SentTime > timeout /\ entry.Attempts < maxAttempts

\* the entry as the loop of GetTimeoutEntries updates it
Retried(entry, clock) == [entry EXCEPT !.SentTime = clock, !.Attempts = @ + 1]

\* the entries after the call and the snapshots the call returns
GetTimeoutEntries(entries, timeout, maxAttempts, clock) ==
    LET due == SelectSeq(entries,
                         LAMBDA entry : TimedOut(entry, timeout, maxAttempts, clock))
    IN  [ entries |->
            [ i \in 1 .. Len(entries) |->
                IF TimedOut(entries[i], timeout, maxAttempts, clock)
                THEN Retried(entries[i], clock)
                ELSE entries[i] ],
          timeoutEntries |-> [ i \in 1 .. Len(due) |-> Retried(due[i], clock) ] ]

Size(entries) == Len(entries)

----------------------------------------------------------------------------
(* internal/tcp: the TCB *)

DefaultRetransmissionTimeout == 1
DefaultMaxRetransmissionAttempts == 3

NewTCB(localPort, remotePort) ==
    [ LocalPort   |-> localPort,
      RemotePort  |-> remotePort,
      SendNext    |-> 0,
      SendUnack   |-> 0,
      RecvNext    |-> 0,
      RecvWindow  |-> DefaultWindowSize,
      State       |-> StateClosed,
      SendBuffer  |-> << >>,
      RecvBuffer  |-> << >>,
      RetransmissionQueue       |-> NewRetransmissionQueue,
      RetransmissionTimeout     |-> DefaultRetransmissionTimeout,
      MaxRetransmissionAttempts |-> DefaultMaxRetransmissionAttempts ]

SetState(t, state) == [t EXCEPT !.State = state]

\* the result of a call that returns an error
Fail(t, err) == [ tcb |-> t, out |-> NoHeader, err |-> err ]

\* the result of a call that returns no error
Ok(t, out) == [ tcb |-> t, out |-> out, err |-> "" ]

\* a header built with the two ports swapped
MakeHeaderSwapsPorts(t, seq, ack) ==
    [ NewTCPHeader(t.RemotePort, t.LocalPort) EXCEPT
        !.SequenceNumber = seq,
        !.AckNumber      = ack,
        !.WindowSize     = t.RecvWindow ]

\* a header as every operation builds it before setting its flags
MakeHeader(t, seq, ack) ==
    [ NewTCPHeader(t.LocalPort, t.RemotePort) EXCEPT
        !.SequenceNumber = seq,
        !.AckNumber      = ack,
        !.WindowSize     = t.RecvWindow ]

----------------------------------------------------------------------------
(* internal/tcp: the three-way handshake.  isn is what GenerateISN returns *)

\* StartClient with the two counters swapped
StartClientSwapsCounters(t, isn, clock) ==
    IF t.State # StateClosed
    THEN Fail(t, "connection must be in CLOSED state to start handshake")
    ELSE LET synHeader == SetFlag(MakeHeader(t, isn, 0), FlagSYN)
         IN  Ok([ t EXCEPT
                    !.SendNext  = isn,
                    !.SendUnack = Plus(isn, 1),
                    !.RetransmissionQueue = Add(@, synHeader, << >>, clock),
                    !.State     = StateSynSent ],
                synHeader)

StartClient(t, isn, clock) ==
    IF t.State # StateClosed
    THEN Fail(t, "connection must be in CLOSED state to start handshake")
    ELSE LET synHeader == SetFlag(MakeHeader(t, isn, 0), FlagSYN)
         IN  Ok([ t EXCEPT
                    !.SendNext  = Plus(isn, 1),
                    !.SendUnack = isn,
                    !.RetransmissionQueue = Add(@, synHeader, << >>, clock),
                    !.State     = StateSynSent ],
                synHeader)

\* HandleSyn acknowledging the SYN's own sequence number
HandleSynAcksSeq(t, synHeader, isn) ==
    IF t.State # StateListen
    THEN Fail(t, "connection must be in LISTEN state to handle SYN")
    ELSE LET recvNext     == synHeader.SequenceNumber
             synAckHeader == SetFlag(MakeHeader(t, isn, recvNext), BitOr(FlagSYN, FlagACK))
         IN  Ok([ t EXCEPT
                    !.RecvNext  = recvNext,
                    !.SendNext  = Plus(isn, 1),
                    !.SendUnack = isn,
                    !.State     = StateSynReceived ],
                synAckHeader)

\* HandleSyn answering with a plain SYN (no ACK flag)
HandleSynPlainSyn(t, synHeader, isn) ==
    IF t.State # StateListen
    THEN Fail(t, "connection must be in LISTEN state to handle SYN")
    ELSE LET recvNext     == Plus(synHeader.SequenceNumber, 1)
             synAckHeader == SetFlag(MakeHeader(t, isn, recvNext), FlagSYN)
         IN  Ok([ t EXCEPT
                    !.RecvNext  = recvNext,
                    !.SendNext  = Plus(isn, 1),
                    !.SendUnack = isn,
                    !.State     = StateSynReceived ],
                synAckHeader)

HandleSyn(t, synHeader, isn) ==
    IF t.State # StateListen
    THEN Fail(t, "connection must be in LISTEN state to handle SYN")
    ELSE LET recvNext     == Plus(synHeader.SequenceNumber, 1)
             synAckHeader == SetFlag(MakeHeader(t, isn, recvNext), BitOr(FlagSYN, FlagACK))
         IN  Ok([ t EXCEPT
                    !.RecvNext  = recvNext,
                    !.SendNext  = Plus(isn, 1),
                    !.SendUnack = isn,
                    !.State     = StateSynReceived ],
                synAckHeader)

HandleSynAck(t, synAckHeader) ==
    IF t.State # StateSynSent
    THEN Fail(t, "connection must be in SYN_SENT state to handle SYN-ACK")
    ELSE IF synAckHeader.AckNumber # t.SendNext
    THEN Fail(t, "invalid ACK number in SYN-ACK")
    ELSE LET recvNext  == Plus(synAckHeader.SequenceNumber, 1)
             ackHeader == SetFlag(MakeHeader(t, t.SendNext, recvNext), FlagACK)
         IN  Ok([ t EXCEPT
                    !.RecvNext = recvNext,
                    !.RetransmissionQueue = Remove(@, synAckHeader.AckNumber),
                    !.State    = StateEstablished ],
                ackHeader)

\* HandleAck moving RecvNext past the ACK's sequence number
HandleAckCountsAck(t, ackHeader) ==
    IF t.State # StateSynReceived
    THEN Fail(t, "connection must be in SYN_RECEIVED state to handle final ACK")
    ELSE IF ackHeader.AckNumber # t.SendNext
    THEN Fail(t, "invalid ACK number in final ACK")
    ELSE IF ackHeader.SequenceNumber # t.RecvNext
    THEN Fail(t, "invalid sequence number in final ACK")
    ELSE Ok([ t EXCEPT
                !.RecvNext = Plus(ackHeader.SequenceNumber, 1),
                !.RetransmissionQueue = Remove(@, ackHeader.AckNumber),
                !.State = StateEstablished ],
            NoHeader)

\* HandleAck verifying the sequence number before the acknowledgment number
HandleAckSeqFirst(t, ackHeader) ==
    IF t.State # StateSynReceived
    THEN Fail(t, "connection must be in SYN_RECEIVED state to handle final ACK")
    ELSE IF ackHeader.SequenceNumber # t.RecvNext
    THEN Fail(t, "invalid sequence number in final ACK")
    ELSE IF ackHeader.AckNumber # t.SendNext
    THEN Fail(t, "invalid ACK number in final ACK")
    ELSE Ok([ t EXCEPT
                !.RetransmissionQueue = Remove(@, ackHeader.AckNumber),
                !.State = StateEstablished ],
            NoHeader)

HandleAck(t, ackHeader) ==
    IF t.State # StateSynReceived
    THEN Fail(t, "connection must be in SYN_RECEIVED state to handle final ACK")
    ELSE IF ackHeader.AckNumber # t.SendNext
    THEN Fail(t, "invalid ACK number in final ACK")
    ELSE IF ackHeader.SequenceNumber # t.RecvNext
    THEN Fail(t, "invalid sequence number in final ACK")
    ELSE Ok([ t EXCEPT
                !.RetransmissionQueue = Remove(@, ackHeader.AckNumber),
                !.State = StateEstablished ],
            NoHeader)

----------------------------------------------------------------------------
(* internal/tcp: data transfer *)

\* Send checking the payload before the state
SendChecksDataFirst(t, data, clock) ==
    IF Len(data) = 0
    THEN Fail(t, "cannot send empty data")
    ELSE IF t.State # StateEstablished
    THEN Fail(t, "connection must be in ESTABLISHED state to send data")
    ELSE LET header == SetFlag(MakeHeader(t, t.SendNext, t.RecvNext),
                               BitOr(FlagACK, FlagPSH))
         IN  Ok([ t EXCEPT
                    !.SendBuffer = @ \o data,
                    !.RetransmissionQueue = Add(@, header, data, clock),
                    !.SendNext   = Plus(@, Len(data)) ],
                header)

\* Send advancing SendNext by one per segment
SendCountsSegments(t, data, clock) ==
    IF t.State # StateEstablished
    THEN Fail(t, "connection must be in ESTABLISHED state to send data")
    ELSE IF Len(data) = 0
    THEN Fail(t, "cannot send empty data")
    ELSE LET header == SetFlag(MakeHeader(t, t.SendNext, t.RecvNext),
                               BitOr(FlagACK, FlagPSH))
         IN  Ok([ t EXCEPT
                    !.SendBuffer = @ \o data,
                    !.RetransmissionQueue = Add(@, header, data, clock),
                    !.SendNext   = Plus(@, 1) ],
                header)

Send(t, data, clock) ==
    IF t.State # StateEstablished
    THEN Fail(t, "connection must be in ESTABLISHED state to send data")
    ELSE IF Len(data) = 0
    THEN Fail(t, "cannot send empty data")
    ELSE LET header == SetFlag(MakeHeader(t, t.SendNext, t.RecvNext),
                               BitOr(FlagACK, FlagPSH))
         IN  Ok([ t EXCEPT
                    !.SendBuffer = @ \o data,
                    !.RetransmissionQueue = Add(@, header, data, clock),
                    !.SendNext   = Plus(@, Len(data)) ],
                header)

\* Receive also accepting again the segment it accepted last
ReceiveAcceptsAgain(t, header, data) ==
    IF t.State # StateEstablished
    THEN Fail(t, "connection must be in ESTABLISHED state to receive data")
         @@ [ data |-> << >> ]
    ELSE IF header.SequenceNumber # t.RecvNext
            /\ (Len(data) = 0 \/ Plus(header.SequenceNumber, Len(data)) # t.RecvNext)
    THEN Fail(t, "out-of-order packet") @@ [ data |-> << >> ]
    ELSE LET recvNext  == Plus(t.RecvNext, Len(data))
             ackHeader == SetFlag(MakeHeader(t, t.SendNext, recvNext), FlagACK)
         IN  Ok([ t EXCEPT
                    !.RecvBuffer = @ \o data,
                    !.RecvNext   = recvNext ],
                ackHeader) @@ [ data |-> data ]

\* Receive also accepting the segment one ahead of RecvNext
ReceiveAcceptsAhead(t, header, data) ==
    IF t.State # StateEstablished
    THEN Fail(t, "connection must be in ESTABLISHED state to receive data")
         @@ [ data |-> << >> ]
    ELSE IF header.SequenceNumber # t.RecvNext
            /\ header.SequenceNumber # Plus(t.RecvNext, 1)
    THEN Fail(t, "out-of-order packet") @@ [ data |-> << >> ]
    ELSE LET recvNext  == Plus(t.RecvNext, Len(data))
             ackHeader == SetFlag(MakeHeader(t, t.SendNext, recvNext), FlagACK)
         IN  Ok([ t EXCEPT
                    !.RecvBuffer = @ \o data,
                    !.RecvNext   = recvNext ],
                ackHeader) @@ [ data |-> data ]

\* Receive also returns the payload it accepted: the field data of the result
Receive(t, header, data) ==
    IF t.State # StateEstablished
    THEN Fail(t, "connection must be in ESTABLISHED state to receive data")
         @@ [ data |-> << >> ]
    ELSE IF header.SequenceNumber # t.RecvNext
    THEN Fail(t, "out-of-order packet") @@ [ data |-> << >> ]
    ELSE LET recvNext  == Plus(t.RecvNext, Len(data))
             ackHeader == SetFlag(MakeHeader(t, t.SendNext, recvNext), FlagACK)
         IN  Ok([ t EXCEPT
                    !.RecvBuffer = @ \o data,
                    !.RecvNext   = recvNext ],
                ackHeader) @@ [ data |-> data ]

\* ReceiveAck without the lower bound of the window
ReceiveAckNoLowerBound(t, header) ==
    IF t.State # StateEstablished
    THEN Fail(t, "connection must be in ESTABLISHED state to process ACK")
    ELSE IF header.AckNumber > t.SendNext
    THEN Fail(t, "invalid ACK number")
    ELSE Ok([ t EXCEPT
                !.SendUnack = header.AckNumber,
                !.RetransmissionQueue = Remove(@, header.AckNumber) ],
            NoHeader)

ReceiveAck(t, header) ==
    IF t.State # StateEstablished
    THEN Fail(t, "connection must be in ESTABLISHED state to process ACK")
    ELSE IF header.AckNumber < t.SendUnack \/ header.AckNumber > t.SendNext
    THEN Fail(t, "invalid ACK number")
    ELSE Ok([ t EXCEPT
                !.SendUnack = header.AckNumber,
                !.RetransmissionQueue = Remove(@, header.AckNumber) ],
            NoHeader)

\* CheckRetransmissions scanning with the default settings
CheckRetransmissionsDefaults(t, clock) ==
    LET scan == GetTimeoutEntries(t.RetransmissionQueue, DefaultRetransmissionTimeout,
                                  DefaultMaxRetransmissionAttempts, clock)
    IN  [ tcb     |-> [t EXCEPT !.RetransmissionQueue = scan.entries],
          entries |-> scan.timeoutEntries,
          err     |-> "" ]

\* the TCB after the call, the entries it returns and its (nil) error
CheckRetransmissions(t, clock) ==
    LET scan == GetTimeoutEntries(t.RetransmissionQueue, t.RetransmissionTimeout,
                                  t.MaxRetransmissionAttempts, clock)
    IN  [ tcb     |-> [t EXCEPT !.RetransmissionQueue = scan.entries],
          entries |-> scan.timeoutEntries,
          err     |-> "" ]

GetRetransmissionQueueSize(t) == Size(t.RetransmissionQueue)

SetRetransmissionTimeout(t, timeout) == [t EXCEPT !.RetransmissionTimeout = timeout]

SetMaxRetransmissionAttempts(t, maxAttempts) ==
    [t EXCEPT !.MaxRetransmissionAttempts = maxAttempts]

GetSendBuffer(t) == t.SendBuffer

GetReceiveBuffer(t) == t.RecvBuffer

ClearReceiveBuffer(t) == [t EXCEPT !.RecvBuffer = << >>]

----------------------------------------------------------------------------
(* internal/tcp: the four-way handshake *)

\* Close with a FIN that consumes no sequence number
CloseCountsNothing(t, clock) ==
    IF t.State # StateEstablished
    THEN Fail(t, "connection must be in ESTABLISHED state to close")
    ELSE LET finHeader == SetFlag(MakeHeader(t, t.SendNext, t.RecvNext),
                                  BitOr(FlagFIN, FlagACK))
         IN  Ok([ t EXCEPT
                    !.RetransmissionQueue = Add(@, finHeader, << >>, clock),
                    !.State    = StateFinWait1 ],
                finHeader)

Close(t, clock) ==
    IF t.State # StateEstablished
    THEN Fail(t, "connection must be in ESTABLISHED state to close")
    ELSE LET finHeader == SetFlag(MakeHeader(t, t.SendNext, t.RecvNext),
                                  BitOr(FlagFIN, FlagACK))
         IN  Ok([ t EXCEPT
                    !.RetransmissionQueue = Add(@, finHeader, << >>, clock),
                    !.SendNext = Plus(@, 1),
                    !.State    = StateFinWait1 ],
                finHeader)

\* the switch of HandleFin without its simultaneous-close case
FinTransitionNoClosing(state) ==
    CASE state = StateEstablished -> StateCloseWait
      [] state = StateFinWait1    -> StateCloseWait
      [] state = StateFinWait2    -> StateTimeWait

\* the switch of HandleFin: the state a FIN moves the connection to
FinTransition(state) ==
    CASE state = StateEstablished -> StateCloseWait
      [] state = StateFinWait1    -> StateClosing
      [] state = StateFinWait2    -> StateTimeWait

\* HandleFin consuming the FIN's sequence number before checking it
HandleFinCountsFirst(t, finHeader) ==
    IF t.State # StateEstablished /\ t.State # StateFinWait1 /\ t.State # StateFinWait2
    THEN Fail(t, "unexpected FIN")
    ELSE LET recvNext  == Plus(t.RecvNext, 1)
             ackHeader == SetFlag(MakeHeader(t, t.SendNext, recvNext), FlagACK)
         IN  IF finHeader.SequenceNumber # t.RecvNext
             THEN Fail([ t EXCEPT !.RecvNext = recvNext ],
                       "unexpected sequence number in FIN")
             ELSE Ok([ t EXCEPT
                         !.RecvNext = recvNext,
                         !.State    = FinTransition(t.State) ],
                     ackHeader)

\* HandleFin verifying the sequence number before the state
HandleFinSeqFirst(t, finHeader) ==
    IF finHeader.SequenceNumber # t.RecvNext
    THEN Fail(t, "unexpected sequence number in FIN")
    ELSE IF t.State # StateEstablished /\ t.State # StateFinWait1 /\ t.State # StateFinWait2
    THEN Fail(t, "unexpected FIN")
    ELSE LET recvNext  == Plus(t.RecvNext, 1)
             ackHeader == SetFlag(MakeHeader(t, t.SendNext, recvNext), FlagACK)
         IN  Ok([ t EXCEPT
                    !.RecvNext = recvNext,
                    !.State    = FinTransition(t.State) ],
                ackHeader)

HandleFin(t, finHeader) ==
    IF t.State # StateEstablished /\ t.State # StateFinWait1 /\ t.State # StateFinWait2
    THEN Fail(t, "unexpected FIN")
    ELSE IF finHeader.SequenceNumber # t.RecvNext
    THEN Fail(t, "unexpected sequence number in FIN")
    ELSE LET recvNext  == Plus(t.RecvNext, 1)
             ackHeader == SetFlag(MakeHeader(t, t.SendNext, recvNext), FlagACK)
         IN  Ok([ t EXCEPT
                    !.RecvNext = recvNext,
                    !.State    = FinTransition(t.State) ],
                ackHeader)

\* the switch of HandleFinAck going from FIN_WAIT_1 straight to TIME_WAIT
FinAckSkipsFinWait2(state) ==
    CASE state = StateFinWait1 -> StateTimeWait
      [] state = StateClosing  -> StateTimeWait
      [] state = StateLastAck  -> StateClosed

\* the switch of HandleFinAck without its LAST_ACK case
FinAckLeavesLastAck(state) ==
    CASE state = StateFinWait1 -> StateFinWait2
      [] state = StateClosing  -> StateTimeWait
      [] state = StateLastAck  -> StateLastAck

\* the switch of HandleFinAck: the state the ACK of our FIN moves the
\* connection to
FinAckTransition(state) ==
    CASE state = StateFinWait1 -> StateFinWait2
      [] state = StateClosing  -> StateTimeWait
      [] state = StateLastAck  -> StateClosed

\* HandleFinAck leaving SendUnack where it was
HandleFinAckKeepsUnack(t, ackHeader) ==
    IF t.State # StateFinWait1 /\ t.State # StateClosing /\ t.State # StateLastAck
    THEN Fail(t, "unexpected FIN ACK")
    ELSE IF ackHeader.AckNumber # t.SendNext
    THEN Fail(t, "invalid ACK number for FIN")
    ELSE Ok([ t EXCEPT !.State = FinAckTransition(t.State) ],
            NoHeader)

HandleFinAck(t, ackHeader) ==
    IF t.State # StateFinWait1 /\ t.State # StateClosing /\ t.State # StateLastAck
    THEN Fail(t, "unexpected FIN ACK")
    ELSE IF ackHeader.AckNumber # t.SendNext
    THEN Fail(t, "invalid ACK number for FIN")
    ELSE Ok([ t EXCEPT
                !.SendUnack = ackHeader.AckNumber,
                !.State     = FinAckTransition(t.State) ],
            NoHeader)

\* CloseFromCloseWait closing the connection at once
CloseFromCloseWaitClosesAtOnce(t) ==
    IF t.State # StateCloseWait
    THEN Fail(t, "connection must be in CLOSE_WAIT state")
    ELSE LET finHeader == SetFlag(MakeHeader(t, t.SendNext, t.RecvNext),
                                  BitOr(FlagFIN, FlagACK))
         IN  Ok([ t EXCEPT
                    !.SendNext = Plus(@, 1),
                    !.State    = StateClosed ],
                finHeader)

CloseFromCloseWait(t) ==
    IF t.State # StateCloseWait
    THEN Fail(t, "connection must be in CLOSE_WAIT state")
    ELSE LET finHeader == SetFlag(MakeHeader(t, t.SendNext, t.RecvNext),
                                  BitOr(FlagFIN, FlagACK))
         IN  Ok([ t EXCEPT
                    !.SendNext = Plus(@, 1),
                    !.State    = StateLastAck ],
                finHeader)

IsConnectionClosed(t) == t.State = StateClosed

CanSendData(t) == t.State = StateEstablished

\* CanReceiveData without its CLOSE_WAIT case
CanReceiveDataEstablishedOnly(t) == t.State = StateEstablished

CanReceiveData(t) == t.State = StateEstablished \/ t.State = StateCloseWait

----------------------------------------------------------------------------
(* internal/socket: the socket facade.  Every method runs its critical     *)
(* section under the socket's RWMutex, so a critical section is one step;  *)
(* Send has two of them: State() under the read lock, then the append      *)
(* under the write lock.                                                   *)

Goroutines == { "g1", "g2" }

NewSocket ==
    [ state       |-> StateClosed,
      isListening |-> FALSE,
      sendBuffer  |-> << >>,
      recvBuffer  |-> << >>,
      closeChan   |-> "open" ]

\* a goroutine that is in no call of the socket, and what its last call returned
NoSocketCall(n, err) == [ pc |-> "idle", data |-> << >>, n |-> n, err |-> err ]

InitSocket ==
    /\ sock = NewSocket
    /\ gor = [ g \in Goroutines |-> NoSocketCall(0, "") ]

Returns(g, n, err) == gor' = [gor EXCEPT ![g] = NoSocketCall(n, err)]

SocketListen(g) ==
    /\ gor[g].pc = "idle"
    /\ sock' = [sock EXCEPT !.state = StateListen, !.isListening = TRUE]
    /\ Returns(g, 0, "")
    /\ UNCHANGED tcpVars

\* Connect passes through SYN_SENT and sets ESTABLISHED inside one critical
\* section
SocketConnect(g) ==
    /\ gor[g].pc = "idle"
    /\ sock' = [sock EXCEPT !.state = StateEstablished]
    /\ Returns(g, 0, "")
    /\ UNCHANGED tcpVars

\* Send, first critical section: s.State() under the read lock
SocketSendCheck(g) ==
    /\ gor[g].pc = "idle"
    /\ \E data \in Payloads :
         /\ Len(sock.sendBuffer) + Len(data) <= MaxBuf
         /\ IF sock.state # StateEstablished
            THEN Returns(g, 0, "socket not connected")
            ELSE gor' = [gor EXCEPT ![g] = [ pc |-> "append", data |-> data,
                                             n |-> 0, err |-> "" ]]
    /\ UNCHANGED sock
    /\ UNCHANGED tcpVars

\* Send, second critical section: the append under the write lock
SocketSendAppend(g) ==
    /\ gor[g].pc = "append"
    /\ sock' = [sock EXCEPT !.sendBuffer = @ \o gor[g].data]
    /\ Returns(g, Len(gor[g].data), "")
    /\ UNCHANGED tcpVars

SocketClose(g) ==
    /\ gor[g].pc = "idle"
    /\ sock' = IF sock.state = StateClosed
               THEN sock
               ELSE [sock EXCEPT !.state = StateClosed, !.closeChan = "closed"]
    /\ Returns(g, 0, "")
    /\ UNCHANGED tcpVars

----------------------------------------------------------------------------
(* Two endpoints, as the tests and demos set them up: a client TCB in      *)
(* CLOSED and a server TCB set to LISTEN, each fed the segments the other  *)
(* emits, in the order they were emitted.                                  *)

ClientPort == 8080
ServerPort == 9090

NewClient == NewTCB(ClientPort, ServerPort)

NewServer == SetState(NewTCB(ServerPort, ClientPort), StateListen)

NoOp == [ op |-> "none", e |-> "none", pre |-> "none",
          in |-> NoHeader, out |-> NoHeader, err |-> "" ]

NoProbe == [ flag |-> 0, result |-> FALSE, asked |-> FALSE ]

Threads == {"app", "timer"}

\* the state of a sync.Mutex nobody holds
Unlocked == "unlocked"

\* the queue of its own, as NewRetransmissionQueue returns it
NewQueue == [ entries |-> NewRetransmissionQueue, mutex |-> Unlocked ]

\* a thread that is in no queue call: start is the sequence number its first
\* entry takes, next the one its next entry takes, added the number of
\* entries it has added, maxAttempts the bound it passes to GetTimeoutEntries
Idle(start, maxAttempts) ==
    [ pc |-> "idle", op |-> "none", arg |-> 0, read |-> << >>, clock |-> 0,
      start |-> start, next |-> start, added |-> 0, maxAttempts |-> maxAttempts ]

\* no queue call has returned yet: ret is what the call returned, gone the
\* number of entries it took out of the queue, returns[n] the number of times
\* the entry with sequence number n has been returned by GetTimeoutEntries
NoCall == [ op |-> "none", ret |-> 0, gone |-> 0,
            returns |-> [ n \in SeqNums |-> 0 ] ]

\* no call on a single TCB has been made yet: data is the payload passed to
\* the call, entries what CheckRetransmissions returned, answers what
\* IsConnectionClosed, CanSendData and CanReceiveData returned
NoObs == [ data |-> << >>, entries |-> << >>, answers |-> << >> ]

\* a segment in flight: the header, the payload that travels with it, and
\* the operation that emitted it (which tells the receiving caller which
\* handler to feed it to)
Segment(kind, header, data) == [ kind |-> kind, hdr |-> header, data |-> data ]

\* endpoint e has made call op with result r; inHdr is the segment the call
\* was fed (consumed from chan[e] when consume), kind and data describe the
\* segment it emits, if any
Step(e, op, r, inHdr, consume, kind, data) ==
    /\ tcb' = [tcb EXCEPT ![e] = r.tcb]
    /\ chan' =
         LET rest == IF consume THEN [chan EXCEPT ![e] = Tail(@)] ELSE chan
         IN  IF r.out = NoHeader
             THEN rest
             ELSE [rest EXCEPT ![Peer(e)] = Append(@, Segment(kind, r.out, data))]
    /\ lastOp' = [ op |-> op, e |-> e, pre |-> tcb[e].State,
                   in |-> inHdr, out |-> r.out, err |-> r.err ]
    /\ hist' = IF r.tcb.State # tcb[e].State
               THEN [hist EXCEPT ![e] = Append(@, r.tcb.State)]
               ELSE hist
    /\ UNCHANGED <<now, hdr, probe, queueVars, obs, socketVars>>

\* a call the application makes: when it fails nothing is consumed and
\* nothing has happened
AppCall(e, op, r, kind, data) ==
    IF r.err # ""
    THEN /\ r.tcb = tcb[e]
         /\ UNCHANGED vars
    ELSE Step(e, op, r, NoHeader, FALSE, kind, data)

\* the caller feeds the oldest segment in flight to e to the handler for
\* its kind; a segment the handler rejects is gone
Arrived(e, kind) == chan[e] # << >> /\ Head(chan[e]).kind = kind

\* GenerateISN is called only once the state check has passed
DoStartClient(e, isns) ==
    \E isn \in (IF tcb[e].State = StateClosed THEN isns ELSE {0}) :
        AppCall(e, "StartClient", StartClient(tcb[e], isn, now), "SYN", << >>)

DoHandleSyn(e, isns) ==
    /\ Arrived(e, "SYN")
    /\ \E isn \in (IF tcb[e].State = StateListen THEN isns ELSE {0}) :
         Step(e, "HandleSyn", HandleSyn(tcb[e], Head(chan[e]).hdr, isn),
              Head(chan[e]).hdr, TRUE, "SYNACK", << >>)

DoHandleSynAck(e) ==
    /\ Arrived(e, "SYNACK")
    /\ Step(e, "HandleSynAck", HandleSynAck(tcb[e], Head(chan[e]).hdr),
            Head(chan[e]).hdr, TRUE, "ACK", << >>)

DoHandleAck(e) ==
    /\ Arrived(e, "ACK")
    /\ Step(e, "HandleAck", HandleAck(tcb[e], Head(chan[e]).hdr),
            Head(chan[e]).hdr, TRUE, "none", << >>)

DoSend(e) ==
    \E data \in Payloads \cup { << >> } :
        /\ Len(tcb[e].SendBuffer) + Len(data) <= MaxBuf
        /\ AppCall(e, "Send", Send(tcb[e], data, now), "DATA", data)

DoReceive(e) ==
    /\ Arrived(e, "DATA")
    /\ Step(e, "Receive", Receive(tcb[e], Head(chan[e]).hdr, Head(chan[e]).data),
            Head(chan[e]).hdr, TRUE, "DATAACK", << >>)

DoReceiveAck(e) ==
    /\ Arrived(e, "DATAACK")
    /\ Step(e, "ReceiveAck", ReceiveAck(tcb[e], Head(chan[e]).hdr),
            Head(chan[e]).hdr, TRUE, "none", << >>)

DoClose(e) ==
    AppCall(e, "Close", Close(tcb[e], now), "FIN", << >>)

DoHandleFin(e) ==
    /\ Arrived(e, "FIN")
    /\ Step(e, "HandleFin", HandleFin(tcb[e], Head(chan[e]).hdr),
            Head(chan[e]).hdr, TRUE, "FINACK", << >>)

DoHandleFinAck(e) ==
    /\ Arrived(e, "FINACK")
    /\ Step(e, "HandleFinAck", HandleFinAck(tcb[e], Head(chan[e]).hdr),
            Head(chan[e]).hdr, TRUE, "none", << >>)

DoCloseFromCloseWait(e) ==
    AppCall(e, "CloseFromCloseWait", CloseFromCloseWait(tcb[e]), "FIN", << >>)

Init ==
    /\ tcb = [ client |-> NewClient, server |-> NewServer ]
    /\ chan = [ client |-> << >>, server |-> << >> ]
    /\ lastOp = NoOp
    /\ hist = [ client |-> << StateClosed >>, server |-> << StateListen >> ]
    /\ now = 0
    /\ hdr = NewTCPHeader(ClientPort, ServerPort)
    /\ probe = NoProbe
    /\ rq = NewQueue
    /\ thr = [ th \in Threads |-> Idle(0, DefaultMaxRetransmissionAttempts) ]
    /\ qcall = NoCall
    /\ lin = NewRetransmissionQueue
    /\ obs = NoObs
    /\ InitSocket

Next ==
    \E e \in Endpoints :
        \/ DoStartClient(e, ISNs)
        \/ DoHandleSyn(e, ISNs)
        \/ DoHandleSynAck(e)
        \/ DoHandleAck(e)
        \/ DoSend(e)
        \/ DoReceive(e)
        \/ DoReceiveAck(e)
        \/ DoClose(e)
        \/ DoHandleFin(e)
        \/ DoHandleFinAck(e)
        \/ DoCloseFromCloseWait(e)

Spec == Init /\ [][Next]_vars

----------------------------------------------------------------------------
(* The open handshake alone, for every pair of initial sequence numbers *)

NextOpen ==
    \E e \in Endpoints :
        \/ DoStartClient(e, SeqNums)
        \/ DoHandleSyn(e, SeqNums)
        \/ DoHandleSynAck(e)
        \/ DoHandleAck(e)

SpecOpen == Init /\ [][NextOpen]_vars

----------------------------------------------------------------------------
(* The close handshake alone, from two ends that have just completed the   *)
(* open handshake (so their counters are synchronized and nothing is in    *)
(* flight), for every pair of initial sequence numbers                     *)

\* the four calls of the open handshake, each fed what the previous one emitted
OpenRun(clientIsn, serverIsn) ==
    LET syn    == StartClient(NewClient, clientIsn, 0)
        synAck == HandleSyn(NewServer, syn.out, serverIsn)
        ack    == HandleSynAck(syn.tcb, synAck.out)
        done   == HandleAck(synAck.tcb, ack.out)
    IN  [ client |-> ack.tcb, server |-> done.tcb, ack |-> ack.out ]

InitClose ==
    \E clientIsn \in SeqNums, serverIsn \in SeqNums :
        LET run == OpenRun(clientIsn, serverIsn)
        IN  /\ tcb = [ client |-> run.client, server |-> run.server ]
            /\ chan = [ client |-> << >>, server |-> << >> ]
            /\ lastOp = [ op |-> "HandleAck", e |-> "server", pre |-> StateSynReceived,
                          in |-> run.ack, out |-> NoHeader, err |-> "" ]
            /\ hist = [ client |-> << StateClosed, StateSynSent, StateEstablished >>,
                        server |-> << StateListen, StateSynReceived, StateEstablished >> ]
            /\ now = 0
            /\ hdr = NewTCPHeader(ClientPort, ServerPort)
            /\ probe = NoProbe
            /\ rq = NewQueue
            /\ thr = [ th \in Threads |-> Idle(0, DefaultMaxRetransmissionAttempts) ]
            /\ qcall = NoCall
            /\ lin = NewRetransmissionQueue
            /\ obs = NoObs
            /\ InitSocket

NextClose ==
    \E e \in Endpoints :
        \/ DoClose(e)
        \/ DoHandleFin(e)
        \/ DoHandleFinAck(e)
        \/ DoCloseFromCloseWait(e)

SpecClose == InitClose /\ [][NextClose]_vars

\* every segment in flight is eventually fed to its handler, and an
\* application in CLOSE_WAIT eventually closes
FairSpecClose ==
    /\ SpecClose
    /\ \A e \in Endpoints :
         /\ WF_vars(DoHandleFin(e))
         /\ WF_vars(DoHandleFinAck(e))
         /\ WF_vars(DoCloseFromCloseWait(e))

----------------------------------------------------------------------------
(* The flag helpers of the header alone *)

\* the flag arguments: every non-empty combination of the six flags
FlagMasks == 1 .. 63

DoSetFlag(flag) ==
    /\ hdr' = SetFlag(hdr, flag)
    /\ probe' = NoProbe
    /\ UNCHANGED <<tcb, chan, lastOp, hist, now, queueVars, obs, socketVars>>

DoHasFlag(flag) ==
    /\ probe' = [ flag |-> flag, result |-> HasFlag(hdr, flag), asked |-> TRUE ]
    /\ UNCHANGED <<tcb, chan, lastOp, hist, now, hdr, queueVars, obs, socketVars>>

NextFlags ==
    \E flag \in FlagMasks :
        \/ DoSetFlag(flag)
        \/ DoHasFlag(flag)

SpecFlags == Init /\ [][NextFlags]_vars

----------------------------------------------------------------------------
(* The retransmission queue alone, as TestRetransmissionQueue builds it,   *)
(* called by two threads: the application adds the segments it sends and   *)
(* removes what the peer acknowledges, a timer scans for timeouts.  Every  *)
(* method locks the queue's mutex on entry and unlocks it on return.       *)

\* the sequence numbers the application's first entry takes: one far from
\* the wrap, and the last number, so that the entry's span crosses the wrap
QStarts == { 0, SeqMod - 1 }

\* the segments the application adds: a SYN (first of all), two bytes of
\* data, a FIN (last of all), with the flags StartClient, Send and Close set
QSegments ==
    { [ flags |-> FlagSYN,                  data |-> << >> ],
      [ flags |-> BitOr(FlagACK, FlagPSH),  data |-> << 2, 3 >> ],
      [ flags |-> BitOr(FlagFIN, FlagACK),  data |-> << >> ] }

\* the timeouts the timer passes to GetTimeoutEntries, in clock ticks
QTimeouts == { 0, 1 }

QMaxAttempts == 1 .. DefaultMaxRetransmissionAttempts

QHeader(segment, seq) ==
    SetFlag([ NewTCPHeader(ClientPort, ServerPort) EXCEPT !.SequenceNumber = seq ],
            segment.flags)

\* the acknowledgment numbers the application passes to Remove: those on and
\* around the entries in the queue
QAcks(entries, next) ==
    { next } \cup
    { Plus(entries[i].Header.SequenceNumber, d) : i \in 1 .. Len(entries), d \in 0 .. 2 }

\* sync.Mutex.Lock returning at once whatever the state of the mutex
LockNeverWaits(mutex) == TRUE

\* sync.Mutex.Lock returns only when nobody holds the mutex
Lock(mutex) == mutex = Unlocked

\* what a method does between Lock and Unlock, on the entries it read
Body(op, arg, entries, clock) ==
    CASE op = "Add" ->
           [ entries |-> Add(entries, arg.header, arg.data, clock), ret |-> 0 ]
      [] op = "Remove" ->
           [ entries |-> Remove(entries, arg), ret |-> 0 ]
      [] op = "GetTimeoutEntries" ->
           LET scan == GetTimeoutEntries(entries, arg.timeout, arg.maxAttempts, clock)
           IN  [ entries |-> scan.entries, ret |-> scan.timeoutEntries ]
      [] op = "Size" ->
           [ entries |-> entries, ret |-> Size(entries) ]

\* th enters a method: it takes the mutex, reads the clock and the entries
Enter(th, op, arg, next, added) ==
    /\ thr[th].pc = "idle"
    /\ Lock(rq.mutex)
    /\ rq' = [rq EXCEPT !.mutex = th]
    /\ thr' = [thr EXCEPT ![th] =
                 [@ EXCEPT !.pc = "locked", !.op = op, !.arg = arg,
                           !.read = rq.entries, !.clock = now,
                           !.next = next, !.added = added]]
    /\ UNCHANGED <<tcb, chan, lastOp, hist, now, hdr, probe, qcall, lin, obs, socketVars>>

DoAdd(th) ==
    \E segment \in QSegments :
        LET header == QHeader(segment, thr[th].next)
            entry  == [ Header |-> header, Data |-> segment.data ]
        IN  /\ thr[th].added < MaxAdds
            /\ HasFlag(header, FlagSYN) => thr[th].added = 0
            /\ Enter(th, "Add", [ header |-> header, data |-> segment.data ],
                     SeqEnd(entry),
                     IF HasFlag(header, FlagFIN) THEN MaxAdds ELSE thr[th].added + 1)

DoRemove(th) ==
    \E ackNumber \in QAcks(rq.entries, thr[th].next) :
        Enter(th, "Remove", ackNumber, thr[th].next, thr[th].added)

DoGetTimeoutEntries(th) ==
    \E timeout \in QTimeouts :
        Enter(th, "GetTimeoutEntries",
              [ timeout |-> timeout, maxAttempts |-> thr[th].maxAttempts ],
              thr[th].next, thr[th].added)

DoSize(th) ==
    /\ Enter(th, "Size", 0, thr[th].next, thr[th].added)

\* th returns from the method it is in: it writes the entries (Size writes
\* nothing) and the deferred Unlock runs
Return(th) ==
    /\ thr[th].pc = "locked"
    /\ LET c    == thr[th]
           r    == Body(c.op, c.arg, c.read, c.clock)
           alone == Body(c.op, c.arg, lin, c.clock)
       IN  /\ rq' = [ entries |-> IF c.op = "Size" THEN rq.entries ELSE r.entries,
                      mutex   |-> Unlocked ]
           /\ qcall' = [ op |-> c.op, ret |-> r.ret,
                         gone |-> Len(c.read) - Len(r.entries),
                         returns |->
                           IF c.op = "GetTimeoutEntries"
                           THEN [ n \in SeqNums |->
                                    qcall.returns[n] +
                                    Cardinality({ i \in 1 .. Len(r.ret) :
                                                    r.ret[i].Header.SequenceNumber = n }) ]
                           ELSE qcall.returns ]
           /\ lin' = alone.entries
    /\ thr' = [thr EXCEPT ![th] =
                 [@ EXCEPT !.pc = "idle", !.op = "none", !.arg = 0,
                           !.read = << >>, !.clock = 0]]
    /\ UNCHANGED <<tcb, chan, lastOp, hist, now, hdr, probe, obs, socketVars>>

\* time passes
Tick ==
    /\ now < MaxClock
    /\ now' = now + 1
    /\ UNCHANGED <<tcb, chan, lastOp, hist, hdr, probe, queueVars, obs, socketVars>>

InitQueue ==
    \E start \in QStarts, maxAttempts \in QMaxAttempts :
        /\ tcb = [ client |-> NewClient, server |-> NewServer ]
        /\ chan = [ client |-> << >>, server |-> << >> ]
        /\ lastOp = NoOp
        /\ hist = [ client |-> << StateClosed >>, server |-> << StateListen >> ]
        /\ now = 0
        /\ hdr = NewTCPHeader(ClientPort, ServerPort)
        /\ probe = NoProbe
        /\ rq = NewQueue
        /\ thr = [ th \in Threads |-> Idle(start, maxAttempts) ]
        /\ qcall = NoCall
        /\ lin = NewRetransmissionQueue
        /\ obs = NoObs
        /\ InitSocket

NextQueue ==
    \/ DoAdd("app")
    \/ DoRemove("app")
    \/ DoGetTimeoutEntries("timer")
    \/ DoSize("timer")
    \/ \E th \in Threads : Return(th)
    \/ Tick

SpecQueue == InitQueue /\ [][NextQueue]_vars

----------------------------------------------------------------------------
(* One TCB alone, as the unit tests drive it: every operation may be       *)
(* called at any time, the handlers with headers the caller builds (on and *)
(* around the numbers the TCB expects).                                    *)

\* the headers a caller builds for the handlers of t
HeadersWith(t, seqs, acks) ==
    { [ NewTCPHeader(t.RemotePort, t.LocalPort) EXCEPT
          !.SequenceNumber = seq, !.AckNumber = ack ] :
        seq \in seqs, ack \in acks }

\* the sequence numbers of the segments fed to t: the one t expects and the
\* one after it
SeqsFor(t) == { t.RecvNext, Plus(t.RecvNext, 1) }

\* the acknowledgment numbers of the segments fed to t: what t has sent, and
\* one more
AcksFor(t) == { t.SendNext, Plus(t.SendNext, 1) }

\* the acknowledgment numbers fed to ReceiveAck: on and around SendUnack and
\* SendNext
DataAcksFor(t) ==
    { Plus(t.SendUnack, SeqMod - 1), t.SendUnack, Plus(t.SendUnack, 1),
      t.SendNext, Plus(t.SendNext, 1) }

\* the call op on the TCB of e has returned r; the first call chooses which
\* of the two TCBs (the one in CLOSED, the one in LISTEN) is the one driven.
\* A call that returns an error has changed nothing.
Call(e, op, r, inHdr, data, entries, answers) ==
    /\ lastOp.e \in { "none", e }
    /\ IF r.err # ""
       THEN /\ r.tcb = tcb[e]
            /\ UNCHANGED vars
       ELSE /\ tcb' = [tcb EXCEPT ![e] = r.tcb]
            /\ lastOp' = [ op |-> op, e |-> e, pre |-> tcb[e].State,
                           in |-> inHdr, out |-> r.out, err |-> r.err ]
            /\ obs' = [ data |-> data, entries |-> entries, answers |-> answers ]
            /\ UNCHANGED <<chan, hist, now, hdr, probe, queueVars, socketVars>>

\* the caller opens a connection on a TCB once, as its first call (what
\* StartClient does to a TCB that a close handshake has closed is examined in
\* the two-endpoint model)
CallStartClient(e) ==
    \E isn \in (IF tcb[e].State = StateClosed THEN ISNs ELSE {0}) :
        /\ tcb[e].State = StateClosed => lastOp = NoOp
        /\ Call(e, "StartClient", StartClient(tcb[e], isn, now),
                NoHeader, << >>, << >>, << >>)

CallHandleSyn(e) ==
    \E h \in HeadersWith(tcb[e], ISNs, {0}) :
        \E isn \in (IF tcb[e].State = StateListen THEN ISNs ELSE {0}) :
            Call(e, "HandleSyn", HandleSyn(tcb[e], h, isn), h, << >>, << >>, << >>)

CallHandleSynAck(e) ==
    \E h \in HeadersWith(tcb[e], ISNs, AcksFor(tcb[e])) :
        Call(e, "HandleSynAck", HandleSynAck(tcb[e], h), h, << >>, << >>, << >>)

CallHandleAck(e) ==
    \E h \in HeadersWith(tcb[e], SeqsFor(tcb[e]), AcksFor(tcb[e])) :
        Call(e, "HandleAck", HandleAck(tcb[e], h), h, << >>, << >>, << >>)

CallSend(e) ==
    \E data \in Payloads \cup { << >> } :
        /\ Len(tcb[e].SendBuffer) + Len(data) <= MaxBuf
        /\ Call(e, "Send", Send(tcb[e], data, now), NoHeader, data, << >>, << >>)

CallReceive(e) ==
    \E h \in HeadersWith(tcb[e], SeqsFor(tcb[e]), {tcb[e].SendNext}), data \in Payloads :
        /\ Len(tcb[e].RecvBuffer) + Len(data) <= MaxBuf
        /\ Call(e, "Receive", Receive(tcb[e], h, data), h, data, << >>, << >>)

CallReceiveAck(e) ==
    \E h \in HeadersWith(tcb[e], {tcb[e].RecvNext}, DataAcksFor(tcb[e])) :
        Call(e, "ReceiveAck", ReceiveAck(tcb[e], h), h, << >>, << >>, << >>)

CallCheckRetransmissions(e) ==
    LET r == CheckRetransmissions(tcb[e], now)
    IN  Call(e, "CheckRetransmissions", [ tcb |-> r.tcb, out |-> NoHeader, err |-> r.err ],
             NoHeader, << >>, r.entries, << >>)

CallClose(e) ==
    Call(e, "Close", Close(tcb[e], now), NoHeader, << >>, << >>, << >>)

CallHandleFin(e) ==
    \E h \in HeadersWith(tcb[e], SeqsFor(tcb[e]), {tcb[e].SendNext}) :
        Call(e, "HandleFin", HandleFin(tcb[e], h), h, << >>, << >>, << >>)

CallHandleFinAck(e) ==
    \E h \in HeadersWith(tcb[e], {tcb[e].RecvNext}, AcksFor(tcb[e])) :
        Call(e, "HandleFinAck", HandleFinAck(tcb[e], h), h, << >>, << >>, << >>)

CallCloseFromCloseWait(e) ==
    Call(e, "CloseFromCloseWait", CloseFromCloseWait(tcb[e]),
         NoHeader, << >>, << >>, << >>)

\* the three state queries, asked one after the other
CallQueries(e) ==
    Call(e, "Queries", Ok(tcb[e], NoHeader), NoHeader, << >>, << >>,
         << IsConnectionClosed(tcb[e]), CanSendData(tcb[e]), CanReceiveData(tcb[e]) >>)

NextOne ==
    \E e \in Endpoints :
        \/ CallStartClient(e)
        \/ CallHandleSyn(e)
        \/ CallHandleSynAck(e)
        \/ CallHandleAck(e)
        \/ CallSend(e)
        \/ CallReceive(e)
        \/ CallReceiveAck(e)
        \/ CallCheckRetransmissions(e)
        \/ CallClose(e)
        \/ CallHandleFin(e)
        \/ CallHandleFinAck(e)
        \/ CallCloseFromCloseWait(e)
        \/ CallQueries(e)

SpecOne == Init /\ [][NextOne]_vars

----------------------------------------------------------------------------
(* Data transfer alone: the client's TCB right after the open handshake,   *)
(* driven as the unit tests drive a DataTransfer, with segments on, behind *)
(* and ahead of the number it expects; the application reads the receive   *)
(* buffer and clears it.                                                   *)

\* the sequence numbers of the data segments fed to t: the one t expects,
\* the one behind it and the one ahead of it
DataSeqsFor(t) == { Plus(t.RecvNext, SeqMod - 1), t.RecvNext, Plus(t.RecvNext, 1) }

\* the payload bytes t has accepted since the handshake: the peer's TCB is
\* left as the handshake left it, so its SendNext is where t's RecvNext began
Accepted(e) == (tcb[e].RecvNext - tcb[Peer(e)].SendNext + SeqMod) % SeqMod

DataSend(e) ==
    \E data \in Payloads \cup { << >> } :
        /\ Len(tcb[e].SendBuffer) + Len(data) <= MaxBuf
        /\ Call(e, "Send", Send(tcb[e], data, now), NoHeader, data, << >>, << >>)

\* the peer sends at most MaxBuf payload bytes in all
DataReceive(e) ==
    \E h \in HeadersWith(tcb[e], DataSeqsFor(tcb[e]), {tcb[e].SendNext}),
       data \in Payloads \cup { << >> } :
        /\ Accepted(e) + Len(data) <= MaxBuf
        /\ Call(e, "Receive", Receive(tcb[e], h, data), h, data, << >>, << >>)

DataReceiveAck(e) ==
    \E h \in HeadersWith(tcb[e], {tcb[e].RecvNext}, DataAcksFor(tcb[e])) :
        Call(e, "ReceiveAck", ReceiveAck(tcb[e], h), h, << >>, << >>, << >>)

DataClearReceiveBuffer(e) ==
    Call(e, "ClearReceiveBuffer", Ok(ClearReceiveBuffer(tcb[e]), NoHeader),
         NoHeader, << >>, << >>, << >>)

InitData ==
    \E clientIsn \in ISNs, serverIsn \in ISNs :
        LET run == OpenRun(clientIsn, serverIsn)
        IN  /\ tcb = [ client |-> run.client, server |-> run.server ]
            /\ chan = [ client |-> << >>, server |-> << >> ]
            /\ lastOp = NoOp
            /\ hist = [ client |-> << StateClosed, StateSynSent, StateEstablished >>,
                        server |-> << StateListen, StateSynReceived, StateEstablished >> ]
            /\ now = 0
            /\ hdr = NewTCPHeader(ClientPort, ServerPort)
            /\ probe = NoProbe
            /\ rq = NewQueue
            /\ thr = [ th \in Threads |-> Idle(0, DefaultMaxRetransmissionAttempts) ]
            /\ qcall = NoCall
            /\ lin = NewRetransmissionQueue
            /\ obs = NoObs
            /\ InitSocket

NextData ==
    \/ DataSend("client")
    \/ DataReceive("client")
    \/ DataReceiveAck("client")
    \/ DataClearReceiveBuffer("client")

SpecData == InitData /\ [][NextData]_vars

----------------------------------------------------------------------------
(* The retransmission timer of a connection: the client's TCB right after  *)
(* the open handshake sends data and a FIN, time passes, the application   *)
(* changes the timer's settings and polls CheckRetransmissions.            *)

TimerSend(e) ==
    \E data \in Payloads :
        /\ Len(tcb[e].SendBuffer) + Len(data) <= MaxBuf
        /\ Call(e, "Send", Send(tcb[e], data, now), NoHeader, data, << >>, << >>)

TimerClose(e) ==
    Call(e, "Close", Close(tcb[e], now), NoHeader, << >>, << >>, << >>)

TimerCheckRetransmissions(e) ==
    LET r == CheckRetransmissions(tcb[e], now)
    IN  Call(e, "CheckRetransmissions", [ tcb |-> r.tcb, out |-> NoHeader, err |-> r.err ],
             NoHeader, << >>, r.entries, << >>)

TimerSetRetransmissionTimeout(e) ==
    \E timeout \in QTimeouts :
        Call(e, "SetRetransmissionTimeout", Ok(SetRetransmissionTimeout(tcb[e], timeout), NoHeader),
             NoHeader, << >>, << >>, << >>)

TimerSetMaxRetransmissionAttempts(e) ==
    \E maxAttempts \in QMaxAttempts :
        Call(e, "SetMaxRetransmissionAttempts",
             Ok(SetMaxRetransmissionAttempts(tcb[e], maxAttempts), NoHeader),
             NoHeader, << >>, << >>, << >>)

NextTimer ==
    \/ TimerSend("client")
    \/ TimerClose("client")
    \/ TimerCheckRetransmissions("client")
    \/ TimerSetRetransmissionTimeout("client")
    \/ TimerSetMaxRetransmissionAttempts("client")
    \/ Tick

SpecTimer == InitData /\ [][NextTimer]_vars

(* Data transfer over a channel that loses, duplicates and reorders data   *)
(* segments and loses acknowledgments: both ends right after the open      *)
(* handshake; the client sends and resends what CheckRetransmissions       *)
(* returns, the server receives and acknowledges.                          *)

\* the channel holds at most MaxInFlight segments in each direction
MaxInFlight == 2

Room(e) == Len(chan[e]) < MaxInFlight

LossySend(e) ==
    \E data \in Payloads :
        /\ Len(tcb[e].SendBuffer) + Len(data) <= MaxBuf
        /\ Room(Peer(e))
        /\ AppCall(e, "Send", Send(tcb[e], data, now), "DATA", data)

LossyReceive(e) == Room(Peer(e)) /\ DoReceive(e)

LossyReceiveAck(e) == DoReceiveAck(e)

\* the segments of the entries CheckRetransmissions returned, as the caller
\* puts them on the wire again
Resent(entries, kind) ==
    [ i \in 1 .. Len(entries) |-> Segment(kind, entries[i].Header, entries[i].Data) ]

\* the caller polls CheckRetransmissions and resends every entry it returns
Resend(e, kind) ==
    LET r == CheckRetransmissions(tcb[e], now)
    IN  /\ r.entries # << >>
        /\ Len(chan[Peer(e)]) + Len(r.entries) <= MaxInFlight
        /\ tcb' = [tcb EXCEPT ![e] = r.tcb]
        /\ chan' = [chan EXCEPT ![Peer(e)] = @ \o Resent(r.entries, kind)]
        /\ lastOp' = [ op |-> "CheckRetransmissions", e |-> e, pre |-> tcb[e].State,
                       in |-> NoHeader, out |-> NoHeader, err |-> r.err ]
        /\ UNCHANGED <<hist, now, hdr, probe, queueVars, obs, socketVars>>

\* s without its i-th element
Without(s, i) == SubSeq(s, 1, i - 1) \o SubSeq(s, i + 1, Len(s))

\* the channel loses a segment
Lose(e) ==
    \E i \in 1 .. Len(chan[e]) :
        /\ chan' = [chan EXCEPT ![e] = Without(@, i)]
        /\ UNCHANGED <<tcb, lastOp, hist, now, hdr, probe, queueVars, obs, socketVars>>

\* the channel delivers a segment twice
Duplicate(e) ==
    \E i \in 1 .. Len(chan[e]) :
        /\ Room(e)
        /\ chan' = [chan EXCEPT ![e] = Append(@, @[i])]
        /\ UNCHANGED <<tcb, lastOp, hist, now, hdr, probe, queueVars, obs, socketVars>>

\* the channel lets a segment overtake the one before it
Reorder(e) ==
    \E i \in 1 .. Len(chan[e]) - 1 :
        /\ chan[e][i] # chan[e][i + 1]
        /\ chan' = [chan EXCEPT ![e] = [@ EXCEPT ![i] = chan[e][i + 1],
                                                  ![i + 1] = chan[e][i]]]
        /\ UNCHANGED <<tcb, lastOp, hist, now, hdr, probe, queueVars, obs, socketVars>>

NextLossy ==
    \/ LossySend("client")
    \/ LossyReceive("server")
    \/ LossyReceiveAck("client")
    \/ Resend("client", "DATA")
    \/ \E e \in Endpoints : Lose(e)
    \/ Duplicate("server")
    \/ Reorder("server")
    \/ Tick

SpecLossy == InitData /\ [][NextLossy]_vars

----------------------------------------------------------------------------
(* The open handshake over a channel that loses segments: the client       *)
(* resends its SYN when CheckRetransmissions returns it, the server        *)
(* resends whatever its own CheckRetransmissions returns.                  *)

LossyHandleSyn(e) == Room(Peer(e)) /\ DoHandleSyn(e, ISNs)

LossyHandleSynAck(e) == Room(Peer(e)) /\ DoHandleSynAck(e)

NextLossyOpen ==
    \/ DoStartClient("client", ISNs)
    \/ LossyHandleSyn("server")
    \/ LossyHandleSynAck("client")
    \/ DoHandleAck("server")
    \/ Resend("client", "SYN")
    \/ \E e \in Endpoints : Lose(e)
    \/ Tick

SpecLossyOpen == Init /\ [][NextLossyOpen]_vars

----------------------------------------------------------------------------
(* The socket facade called from two goroutines *)

NextSocket ==
    \E g \in Goroutines :
        \/ SocketListen(g)
        \/ SocketConnect(g)
        \/ SocketSendCheck(g)
        \/ SocketSendAppend(g)
        \/ SocketClose(g)

SpecSocket == Init /\ [][NextSocket]_vars

----------------------------------------------------------------------------
(* Properties *)

IsPrefix(s, t) == Len(s) <= Len(t) /\ SubSeq(t, 1, Len(s)) = s

Range(s) == { s[i] : i \in 1 .. Len(s) }

\* a <= b in sequence-number order: b is less than half the sequence space
\* ahead of a
SeqLeq(a, b) == ((b - a + SeqMod) % SeqMod) < SeqMod \div 2

NothingInFlight == \A e \in Endpoints : chan[e] = << >>

BothIn(state) == \A e \in Endpoints : tcb[e].State = state

\* the states e has gone through since it was ESTABLISHED by the open handshake
SinceOpen(e) == SubSeq(hist[e], 3, Len(hist[e]))

OpenOps == { "StartClient", "HandleSyn", "HandleSynAck", "HandleAck" }

\* C1: from a client in CLOSED and a server in LISTEN, for every pair of
\* initial sequence numbers, StartClient, HandleSyn, HandleSynAck and
\* HandleAck, each fed the segment the previous one emitted, never fail; the
\* SYN-ACK acknowledges the SYN's sequence number + 1, the final ACK the
\* SYN-ACK's sequence number + 1, and when the last of them has run both
\* TCBs are ESTABLISHED.
C1_OpenHandshake ==
    /\ lastOp.op \in OpenOps => lastOp.err = ""
    /\ lastOp.op = "StartClient" => Head(chan["server"]).hdr = lastOp.out
    /\ lastOp.op \in { "HandleSyn", "HandleSynAck" } =>
         /\ lastOp.out.AckNumber = Plus(lastOp.in.SequenceNumber, 1)
         /\ Head(chan[Peer(lastOp.e)]).hdr = lastOp.out
    /\ lastOp.op = "HandleAck" => BothIn(StateEstablished)
    /\ (NothingInFlight /\ lastOp # NoOp) => BothIn(StateEstablished)

\* C1 witness: the handshake has completed with both initial sequence
\* numbers at the wrap (the client's and the server's SendNext wrapped to 0)
C1_Witness ==
    /\ lastOp.op = "HandleAck" /\ lastOp.err = ""
    /\ BothIn(StateEstablished)
    /\ \A e \in Endpoints : tcb[e].SendUnack = SeqMod - 1 /\ tcb[e].SendNext = 0

ActivePath == << StateEstablished, StateFinWait1, StateFinWait2, StateTimeWait >>

PassivePath == << StateEstablished, StateCloseWait, StateLastAck, StateClosed >>

SimultaneousPath == << StateEstablished, StateFinWait1, StateClosing, StateTimeWait >>

\* C2: from two synchronized ESTABLISHED ends, when one end closes and the
\* other answers its FIN (Close, HandleFin, HandleFinAck, CloseFromCloseWait,
\* HandleFin, HandleFinAck), no call fails, the closing end goes through
\* FIN_WAIT_1, FIN_WAIT_2, TIME_WAIT and the other through CLOSE_WAIT,
\* LAST_ACK, CLOSED, in that order, and the passive end is CLOSED only when
\* the active end is in TIME_WAIT.
C2_ActiveClose ==
    \A p \in Endpoints :
        StateCloseWait \in Range(hist[p]) =>
            /\ lastOp.err = ""
            /\ IsPrefix(SinceOpen(p), PassivePath)
            /\ IsPrefix(SinceOpen(Peer(p)), ActivePath)
            /\ tcb[p].State = StateClosed => tcb[Peer(p)].State = StateTimeWait
            /\ NothingInFlight =>
                 \/ tcb[p].State = StateCloseWait /\ tcb[Peer(p)].State = StateFinWait2
                 \/ tcb[p].State = StateClosed

\* C2 witness: the client closed actively, the server passively, to the end
C2_Witness ==
    /\ SinceOpen("client") = ActivePath
    /\ SinceOpen("server") = PassivePath
    /\ lastOp.op = "HandleFinAck" /\ lastOp.e = "server" /\ lastOp.err = ""

\* both ends called Close before either saw the other's FIN
BothClosedFirst ==
    \A e \in Endpoints : Len(SinceOpen(e)) >= 2 /\ SinceOpen(e)[2] = StateFinWait1

\* C3: when both ends call Close from ESTABLISHED before seeing the peer's
\* FIN, no later call fails, each end goes FIN_WAIT_1, CLOSING (once it has
\* handled the peer's FIN), TIME_WAIT (once it has handled the peer's ACK),
\* and when nothing is left in flight both are in TIME_WAIT, in every
\* interleaving of the two ends.
C3_SimultaneousClose ==
    BothClosedFirst =>
        /\ lastOp.err = ""
        /\ \A e \in Endpoints :
             /\ IsPrefix(SinceOpen(e), SimultaneousPath)
             /\ tcb[e].State = StateFinWait1 <=>
                  (chan[e] # << >> /\ Head(chan[e]).kind = "FIN")
             /\ tcb[e].State = StateClosing =>
                  \/ chan[e] # << >> /\ Head(chan[e]).kind = "FINACK"
                  \/ tcb[Peer(e)].State = StateFinWait1
        /\ NothingInFlight => BothIn(StateTimeWait)

\* C3 witness: both ends are in CLOSING at once
C3_Witness == BothClosedFirst /\ BothIn(StateClosing)

\* C4: the retransmission queue holds no entry that has been acknowledged:
\* none whose span (data length, +1 for SYN or FIN) ends at or before
\* SendUnack.
C4_NoAcknowledgedEntry ==
    \A e \in Endpoints :
        \A i \in 1 .. Len(tcb[e].RetransmissionQueue) :
            ~ SeqLeq(SeqEnd(tcb[e].RetransmissionQueue[i]), tcb[e].SendUnack)

\* C5: SendUnack <= SendNext in sequence-number order, in every state and
\* for every initial sequence number.
C5_UnackNotAheadOfNext ==
    \A e \in Endpoints : SeqLeq(tcb[e].SendUnack, tcb[e].SendNext)

\* C5 witness: an ESTABLISHED end with unacknowledged data whose SendNext
\* has wrapped past 0 while SendUnack has not
C5_Witness ==
    \E e \in Endpoints :
        /\ tcb[e].State = StateEstablished
        /\ tcb[e].SendBuffer # << >>
        /\ tcb[e].SendNext < tcb[e].SendUnack

\* C6: a TCB that reached CLOSED by completing a close handshake (LAST_ACK
\* to CLOSED) never changes state again.
C6_NeverResurrected ==
    \A e \in Endpoints :
        \A i \in 1 .. Len(hist[e]) - 1 :
            (hist[e][i] = StateLastAck /\ hist[e][i + 1] = StateClosed)
                => i + 1 = Len(hist[e])

ProbeHeaders(t) ==
    { [ NewTCPHeader(t.RemotePort, t.LocalPort) EXCEPT
          !.SequenceNumber = seq, !.AckNumber = ack ] :
        seq \in { t.RecvNext, Plus(t.RecvNext, 1) },
        ack \in { Plus(t.SendUnack, SeqMod - 1), t.SendNext, Plus(t.SendNext, 1) } }

\* a failed call r on t changed nothing and returned no header
Untouched(t, r) == r.err # "" => (r.tcb = t /\ r.out = NoHeader)

\* C8: whenever one of the eleven operations returns an error (wrong state,
\* wrong ack number, wrong sequence number, out-of-order segment, empty
\* payload), the TCB is exactly as before the call and no segment is
\* returned.
C8_FailureLeavesTCB ==
    \A e \in Endpoints :
        LET t == tcb[e]
        IN  /\ Untouched(t, StartClient(t, 0, now))
            /\ Untouched(t, Close(t, now))
            /\ Untouched(t, CloseFromCloseWait(t))
            /\ \A data \in Payloads \cup { << >> } : Untouched(t, Send(t, data, now))
            /\ \A h \in ProbeHeaders(t) :
                 /\ Untouched(t, HandleSyn(t, h, 0))
                 /\ Untouched(t, HandleSynAck(t, h))
                 /\ Untouched(t, HandleAck(t, h))
                 /\ Untouched(t, ReceiveAck(t, h))
                 /\ Untouched(t, HandleFin(t, h))
                 /\ Untouched(t, HandleFinAck(t, h))
                 /\ \A data \in Payloads : Untouched(t, Receive(t, h, data))

\* C8 witness: a call has just failed in a state that accepts FINs, where a
\* FIN with the wrong sequence number would fail too
C8_Witness ==
    /\ lastOp.err # ""
    /\ \E e \in Endpoints :
         /\ tcb[e].State = StateFinWait2
         /\ \E h \in ProbeHeaders(tcb[e]) :
              HandleFin(tcb[e], h).err = "unexpected sequence number in FIN"

\* C9: a data round trip between two ESTABLISHED ends: Send emits a segment
\* whose sequence number is the old SendNext; Receive of it returns an ACK
\* for the peer's old RecvNext + n; ReceiveAck of that ACK succeeds and,
\* when it acknowledges everything sent, leaves SendUnack = SendNext and no
\* data entry in the queue.
C9_DataRoundTrip ==
    LET t == tcb[lastOp.e]
    IN  /\ (lastOp.op = "Send") =>
              t.SendNext = Plus(lastOp.out.SequenceNumber,
                                Len(t.RetransmissionQueue[Len(t.RetransmissionQueue)].Data))
        /\ (lastOp.op = "Receive" /\ lastOp.err = "") =>
              lastOp.out.AckNumber = t.RecvNext
        /\ (lastOp.op = "ReceiveAck" /\ lastOp.pre = StateEstablished) =>
              /\ lastOp.err = ""
              /\ t.SendUnack = lastOp.in.AckNumber
              /\ lastOp.in.AckNumber = t.SendNext =>
                   \A i \in 1 .. Len(t.RetransmissionQueue) :
                       t.RetransmissionQueue[i].Data = << >>

\* C10: HasFlag(S) is true if and only if every flag of S is set.
C10_HasFlagIsSubsetTest ==
    probe.asked => (probe.result <=> BitAnd(hdr.Flags, probe.flag) = probe.flag)

----------------------------------------------------------------------------
(* Properties of the retransmission queue *)

\* the span of an entry: its data length, +1 if the SYN or the FIN flag is set
SpanLen(entry) ==
    Len(entry.Data) +
    (IF \/ BitAnd(entry.Header.Flags, FlagSYN) = FlagSYN
        \/ BitAnd(entry.Header.Flags, FlagFIN) = FlagFIN
     THEN 1 ELSE 0)

\* the end of the span, as a number that does not wrap
SpanEnd(entry) == entry.Header.SequenceNumber + SpanLen(entry)

\* the span crosses the end of the sequence space
Crosses(entry) == SpanEnd(entry) >= SeqMod

\* the k-th smallest member of a set of numbers
Kth(set, k) == CHOOSE i \in set : Cardinality({ j \in set : j <= i }) = k

AllIdle == \A th \in Threads : thr[th].pc = "idle"

\* the age of an entry is above the timeout and it has attempts left
Due(entry, timeout, maxAttempts) ==
    now - entry.SentTime > timeout /\ entry.Attempts < maxAttempts

\* a scan at this moment does not return the entry unless more than the
\* scan's timeout has passed since the entry's SentTime
NotBeforeTimeout(entry) ==
    \A timeout \in QTimeouts, maxAttempts \in QMaxAttempts :
        now - entry.SentTime <= timeout =>
            \A other \in Range(GetTimeoutEntries(rq.entries, timeout, maxAttempts, now)
                                .timeoutEntries) :
                other.Header # entry.Header

\* C11: GetTimeoutEntries(timeout, maxAttempts) returns exactly the entries
\* whose age is strictly above timeout and whose attempts are below
\* maxAttempts, in queue order, each with SentTime reset to now and Attempts
\* incremented; every other entry and the size of the queue are unchanged.
\* An entry just added has Attempts 1, the n-th return of an entry reports
\* Attempts = n + 1 (2 at the first return), and an entry just added or just
\* returned is not returned until more than timeout has passed.
C11_TimeoutScan ==
    /\ \A timeout \in QTimeouts, maxAttempts \in QMaxAttempts :
         LET q    == rq.entries
             scan == GetTimeoutEntries(q, timeout, maxAttempts, now)
             due  == { i \in 1 .. Len(q) : Due(q[i], timeout, maxAttempts) }
         IN  /\ Len(scan.entries) = Len(q)
             /\ \A i \in 1 .. Len(q) :
                  scan.entries[i] =
                    IF i \in due
                    THEN [ q[i] EXCEPT !.SentTime = now, !.Attempts = q[i].Attempts + 1 ]
                    ELSE q[i]
             /\ Len(scan.timeoutEntries) = Cardinality(due)
             /\ \A k \in 1 .. Len(scan.timeoutEntries) :
                  scan.timeoutEntries[k] = scan.entries[Kth(due, k)]
    /\ qcall.op = "Add" =>
         /\ rq.entries # << >>
         /\ rq.entries[Len(rq.entries)].Attempts = 1
         /\ NotBeforeTimeout(rq.entries[Len(rq.entries)])
    /\ qcall.op = "GetTimeoutEntries" =>
         \A k \in 1 .. Len(qcall.ret) :
             /\ \E i \in 1 .. Len(rq.entries) : rq.entries[i] = qcall.ret[k]
             /\ qcall.ret[k].Attempts =
                  qcall.returns[qcall.ret[k].Header.SequenceNumber] + 1
             /\ NotBeforeTimeout(qcall.ret[k])

\* C11 witness: a scan has just returned the older of two entries, for the
\* first time, and left the younger one alone
C11_Witness ==
    /\ qcall.op = "GetTimeoutEntries"
    /\ Len(qcall.ret) = 1 /\ qcall.ret[1].Attempts = 2
    /\ Len(rq.entries) = 2
    /\ rq.entries[1] = qcall.ret[1]
    /\ rq.entries[2].Attempts = 1 /\ rq.entries[2].SentTime < now

\* a TCB that holds the queue of its own and the timer's settings
QueueOwner(timeout, maxAttempts) ==
    [ SetState(NewClient, StateEstablished) EXCEPT
        !.RetransmissionQueue       = rq.entries,
        !.RetransmissionTimeout     = timeout,
        !.MaxRetransmissionAttempts = maxAttempts ]

C13_CumulativeAck ==
    \A ackNumber \in SeqNums :
        SelectSeq(Remove(rq.entries, ackNumber), LAMBDA entry : ~ Crosses(entry))
          = SelectSeq(rq.entries,
                      LAMBDA entry : ~ Crosses(entry) /\ ~ (SpanEnd(entry) <= ackNumber))

\* C13 witness: one Remove has just retired two entries at once, of a stream
\* that started far from the wrap
C13_Witness ==
    /\ qcall.op = "Remove"
    /\ qcall.gone = 2
    /\ thr["app"].start = 0
    /\ \A i \in 1 .. Len(rq.entries) : ~ Crosses(rq.entries[i])

\* the part of its span that ackNumber covers, for an ackNumber that is not
\* behind the entry's sequence number
Covered(entry, ackNumber) ==
    (ackNumber - entry.Header.SequenceNumber + SeqMod) % SeqMod

\* C18: an entry whose span crosses the end of the sequence space is kept by
\* Remove(ackNumber) while ackNumber covers only part of its span (none of it
\* included) and removed once ackNumber covers all of it.
C18_RemoveAcrossWrap ==
    \A i \in 1 .. Len(rq.entries) :
        LET entry == rq.entries[i]
        IN  Crosses(entry) =>
              \A d \in 0 .. SpanLen(entry) :
                  LET ackNumber == Plus(entry.Header.SequenceNumber, d)
                  IN  Remove(<< entry >>, ackNumber) =
                        IF Covered(entry, ackNumber) < SpanLen(entry)
                        THEN << entry >>
                        ELSE << >>

\* C14: the queue's methods, called by the application (Add, Remove) and by
\* the timer (GetTimeoutEntries, Size) at once, take effect one at a time: at
\* most one thread is inside a method, what a method read is still what the
\* queue holds when it writes, and whenever no call is in progress the queue
\* is what the calls made so far give when made one after the other (no added
\* entry lost, no removed entry back, no Attempts increment lost).
C14_CallsAreAtomic ==
    /\ \A th \in Threads :
         thr[th].pc = "locked" =>
             /\ rq.mutex = th
             /\ thr[th].read = rq.entries
             /\ rq.entries = lin
    /\ AllIdle => (rq.mutex = Unlocked /\ rq.entries = lin)
    /\ \A i \in 1 .. Len(rq.entries) :
         rq.entries[i].Attempts =
           qcall.returns[rq.entries[i].Header.SequenceNumber] + 1

\* C14 witness: the application is inside Remove, about to take out an entry
\* the timer's scan has returned, while the timer may call again
C14_Witness ==
    /\ thr["app"].pc = "locked" /\ thr["app"].op = "Remove"
    /\ thr["timer"].pc = "idle"
    /\ Len(thr["app"].read) = 2
    /\ Remove(thr["app"].read, thr["app"].arg) # thr["app"].read
    /\ \E i \in 1 .. Len(rq.entries) : rq.entries[i].Attempts = 2

----------------------------------------------------------------------------
(* Properties of one TCB *)

\* the TCB the calls are made on
Driven == tcb[lastOp.e]

\* C15: in each of the eleven states CanSendData is true exactly in
\* ESTABLISHED, CanReceiveData exactly in ESTABLISHED and CLOSE_WAIT,
\* IsConnectionClosed exactly in CLOSED, and asking the three questions
\* changes no field of the TCB.
C15_StateQueries ==
    /\ [](\A e \in Endpoints :
            /\ CanSendData(tcb[e]) <=> tcb[e].State = StateEstablished
            /\ CanReceiveData(tcb[e]) <=>
                 tcb[e].State \in { StateEstablished, StateCloseWait }
            /\ IsConnectionClosed(tcb[e]) <=> tcb[e].State = StateClosed)
    /\ [](lastOp.op = "Queries" =>
            obs.answers = << Driven.State = StateClosed,
                             Driven.State = StateEstablished,
                             Driven.State \in { StateEstablished, StateCloseWait } >>)
    /\ [][lastOp'.op = "Queries" => tcb' = tcb]_vars

\* C15 witness: the three questions have been asked of a TCB in CLOSE_WAIT,
\* which can receive but not send
C15_Witness ==
    /\ lastOp.op = "Queries"
    /\ Driven.State = StateCloseWait
    /\ obs.answers = << FALSE, FALSE, TRUE >>

\* the errors that say the TCB is not in the state the operation requires
InvalidState ==
    { "connection must be in CLOSED state to start handshake",
      "connection must be in LISTEN state to handle SYN",
      "connection must be in SYN_SENT state to handle SYN-ACK",
      "connection must be in SYN_RECEIVED state to handle final ACK",
      "connection must be in ESTABLISHED state to send data",
      "connection must be in ESTABLISHED state to receive data",
      "connection must be in ESTABLISHED state to process ACK",
      "connection must be in ESTABLISHED state to close",
      "connection must be in CLOSE_WAIT state" }

\* the call that returned r was made on t, and the operation requires state
\* required: in any other state it fails on the state, whatever it was fed
StateChecked(t, r, required) ==
    IF t.State # required
    THEN r.err \in InvalidState /\ r.tcb = t
    ELSE r.err \notin InvalidState

\* headers with right and wrong sequence and acknowledgment numbers
AnyHeaders(t) == HeadersWith(t, SeqsFor(t), DataAcksFor(t) \cup AcksFor(t))

\* C16: in each of the eleven states, StartClient fails unless the state is
\* CLOSED, HandleSyn unless LISTEN, HandleSynAck unless SYN_SENT, HandleAck
\* unless SYN_RECEIVED, Send, Receive, ReceiveAck and Close unless
\* ESTABLISHED, CloseFromCloseWait unless CLOSE_WAIT; in the wrong state the
\* error is the state error whatever the segment's numbers and the payload
\* are, and in the right state no state error is returned.
C16_StatePreconditions ==
    \A e \in Endpoints :
        LET t == tcb[e]
        IN  /\ StateChecked(t, StartClient(t, 0, now), StateClosed)
            /\ StateChecked(t, Close(t, now), StateEstablished)
            /\ StateChecked(t, CloseFromCloseWait(t), StateCloseWait)
            /\ \A data \in Payloads \cup { << >> } :
                 StateChecked(t, Send(t, data, now), StateEstablished)
            /\ \A h \in AnyHeaders(t) :
                 /\ StateChecked(t, HandleSyn(t, h, 0), StateListen)
                 /\ StateChecked(t, HandleSynAck(t, h), StateSynSent)
                 /\ StateChecked(t, HandleAck(t, h), StateSynReceived)
                 /\ StateChecked(t, ReceiveAck(t, h), StateEstablished)
                 /\ \A data \in Payloads \cup { << >> } :
                      StateChecked(t, Receive(t, h, data), StateEstablished)

\* C16 witness: a TCB that Close has moved to FIN_WAIT_1, where Send of an
\* empty payload and ReceiveAck of a wrong acknowledgment number fail on the
\* state
C16_Witness ==
    /\ lastOp.op = "Close"
    /\ Driven.State = StateFinWait1
    /\ Send(Driven, << >>, now).err \in InvalidState
    /\ \E h \in AnyHeaders(Driven) :
         /\ h.AckNumber = Plus(Driven.SendNext, 1)
         /\ ReceiveAck(Driven, h).err \in InvalidState

\* ack is in the window [unack, next] of the sequence space: going up from
\* unack, ack comes no later than next
InWindow(unack, ack, next) ==
    ((ack - unack + SeqMod) % SeqMod) <= ((next - unack + SeqMod) % SeqMod)

\* C17: in ESTABLISHED, ReceiveAck accepts an acknowledgment number if and
\* only if it is in the window [SendUnack, SendNext] of the sequence space,
\* a window that spans the wrap included, and the accepted number becomes
\* SendUnack.
C17_AckWindowModular ==
    \A e \in Endpoints :
        tcb[e].State = StateEstablished =>
            \A ack \in SeqNums :
                LET t == tcb[e]
                    r == ReceiveAck(t, [ NewTCPHeader(t.RemotePort, t.LocalPort) EXCEPT
                                           !.SequenceNumber = t.RecvNext,
                                           !.AckNumber = ack ])
                IN  IF InWindow(t.SendUnack, ack, t.SendNext)
                    THEN r.err = "" /\ r.tcb.SendUnack = ack
                    ELSE r.err # ""

\* C19: over any sequence of calls RecvNext changes only by a successful
\* Receive (advanced by the payload length), a successful HandleFin (advanced
\* by 1) and a successful HandleSyn or HandleSynAck (set to the peer's
\* sequence number + 1); every other call, CheckRetransmissions after a
\* timeout included, leaves it as it was.
C19_RecvNextFrame ==
    [][\A e \in Endpoints :
         LET old == tcb[e].RecvNext
             new == tcb'[e].RecvNext
             op  == lastOp'.op
         IN  /\ new # old =>
                  /\ lastOp'.e = e /\ lastOp'.err = ""
                  /\ op \in { "Receive", "HandleFin", "HandleSyn", "HandleSynAck" }
             /\ lastOp'.e = e =>
                  new = CASE op = "Receive"   -> Plus(old, Len(obs'.data))
                          [] op = "HandleFin" -> Plus(old, 1)
                          [] op \in { "HandleSyn", "HandleSynAck" } ->
                               Plus(lastOp'.in.SequenceNumber, 1)
                          [] OTHER -> old
             /\ CheckRetransmissions(tcb[e], now + tcb[e].RetransmissionTimeout + 1)
                    .tcb.RecvNext = old
      ]_vars

\* C19 witness: Receive has just taken two bytes that carried RecvNext across
\* the wrap
C19_Witness ==
    /\ lastOp.op = "Receive" /\ lastOp.err = ""
    /\ Len(obs.data) = 2
    /\ lastOp.in.SequenceNumber = SeqMod - 1
    /\ Driven.RecvNext = 1

----------------------------------------------------------------------------
(* Properties of the open handshake, client side *)

\* the SYN that StartClient emits for initial sequence number isn
IsSynOf(t, header, isn) ==
    /\ header.SequenceNumber = isn
    /\ header.Flags = FlagSYN
    /\ header.WindowSize = t.RecvWindow
    /\ header.SourcePort = t.LocalPort /\ header.DestinationPort = t.RemotePort

\* C20: StartClient from CLOSED sets SendUnack = ISN and SendNext = ISN + 1,
\* emits a SYN with seq = ISN, no ACK flag and window = RecvWindow, and moves
\* to SYN_SENT; while in SYN_SENT the retransmission queue holds exactly that
\* SYN; HandleSynAck succeeds if and only if ack = SendNext, and then sets
\* RecvNext = seq + 1, emits an ACK with seq = SendNext and ack = RecvNext,
\* leaves the queue empty and moves to ESTABLISHED.  It holds for a TCB
\* opened for the first time (SpecOpen); StartClient also succeeds on a TCB
\* that a close handshake brought back to CLOSED, whose queue still holds
\* whatever was never acknowledged.
C20_ClientOpen ==
    LET t == tcb["client"]
    IN  /\ (lastOp.op = "StartClient" /\ lastOp.e = "client") =>
              /\ lastOp.pre = StateClosed /\ lastOp.err = ""
              /\ t.State = StateSynSent
              /\ IsSynOf(t, lastOp.out, t.SendUnack)
        /\ t.State = StateSynSent =>
              /\ t.SendNext = Plus(t.SendUnack, 1)
              /\ Len(t.RetransmissionQueue) = 1
              /\ IsSynOf(t, t.RetransmissionQueue[1].Header, t.SendUnack)
              /\ t.RetransmissionQueue[1].Data = << >>
              /\ \A seq \in SeqNums, ack \in SeqNums :
                   LET r == HandleSynAck(t, [ NewTCPHeader(t.RemotePort, t.LocalPort) EXCEPT
                                                !.SequenceNumber = seq,
                                                !.AckNumber = ack,
                                                !.Flags = BitOr(FlagSYN, FlagACK) ])
                   IN  /\ r.err = "" <=> ack = t.SendNext
                       /\ r.err = "" =>
                            /\ r.tcb.RecvNext = Plus(seq, 1)
                            /\ r.out.Flags = FlagACK
                            /\ r.out.SequenceNumber = t.SendNext
                            /\ r.out.AckNumber = Plus(seq, 1)
                            /\ r.tcb.RetransmissionQueue = << >>
                            /\ r.tcb.State = StateEstablished
                            /\ r.tcb.SendNext = t.SendNext
        /\ (lastOp.op = "HandleSynAck" /\ lastOp.e = "client") =>
              /\ lastOp.pre = StateSynSent /\ lastOp.err = ""
              /\ t.State = StateEstablished
              /\ t.RetransmissionQueue = << >>
              /\ t.RecvNext = Plus(lastOp.in.SequenceNumber, 1)
              /\ lastOp.out.AckNumber = t.RecvNext
              /\ lastOp.out.SequenceNumber = t.SendNext

----------------------------------------------------------------------------
(* Properties of the open handshake, server side *)

\* r is what HandleSyn must return for a SYN with sequence number seq when
\* GenerateISN gives isn: the counters, the SYN-ACK and the new state
SynAnswered(t, r, seq, isn) ==
    /\ r.err = ""
    /\ r.tcb.RecvNext = (seq + 1) % SeqMod
    /\ r.tcb.SendUnack = isn
    /\ r.tcb.SendNext = (isn + 1) % SeqMod
    /\ r.tcb.State = StateSynReceived
    /\ HasFlag(r.out, FlagSYN) /\ HasFlag(r.out, FlagACK)
    /\ r.out.Flags = BitOr(FlagSYN, FlagACK)
    /\ r.out.SequenceNumber = isn
    /\ r.out.AckNumber = r.tcb.RecvNext

\* C21: HandleSyn from LISTEN, for every incoming sequence number, sets
\* RecvNext = incoming seq + 1 (modulo 2^32), picks an ISN with
\* SendUnack = ISN and SendNext = ISN + 1, emits a segment carrying both SYN
\* and ACK with seq = ISN and ack = RecvNext, and moves to SYN_RECEIVED.
C21_HandleSyn ==
    /\ \A e \in Endpoints :
         tcb[e].State = StateListen =>
            \A seq \in SeqNums, isn \in SeqNums :
                SynAnswered(tcb[e],
                            HandleSyn(tcb[e],
                                      [ NewTCPHeader(tcb[e].RemotePort, tcb[e].LocalPort)
                                          EXCEPT !.SequenceNumber = seq, !.Flags = FlagSYN ],
                                      isn),
                            seq, isn)
    /\ (lastOp.op = "HandleSyn" /\ lastOp.err = "") =>
         /\ lastOp.pre = StateListen
         /\ SynAnswered(tcb[lastOp.e], [ tcb |-> tcb[lastOp.e], out |-> lastOp.out, err |-> "" ],
                        lastOp.in.SequenceNumber, lastOp.out.SequenceNumber)

\* C21 witness: the server has answered a SYN that took the last sequence
\* number (RecvNext wrapped to 0) with an ISN that is the last number too
C21_Witness ==
    /\ lastOp.op = "HandleSyn" /\ lastOp.e = "server" /\ lastOp.err = ""
    /\ lastOp.in.SequenceNumber = SeqMod - 1
    /\ tcb["server"].RecvNext = 0
    /\ tcb["server"].SendUnack = SeqMod - 1 /\ tcb["server"].SendNext = 0
    /\ tcb["server"].State = StateSynReceived

\* the three sequence counters of a TCB
Counters(t) == << t.SendUnack, t.SendNext, t.RecvNext >>

\* C22: HandleAck in SYN_RECEIVED succeeds if and only if the incoming
\* ack number equals SendNext and the incoming sequence number equals
\* RecvNext; on success the state becomes ESTABLISHED and the counters are
\* unchanged; when the ack number is wrong the ack-number error is reported
\* even if the sequence number is wrong too, and on either error the state
\* stays SYN_RECEIVED.
C22_HandleAck ==
    /\ \A e \in Endpoints :
         tcb[e].State = StateSynReceived =>
            \A seq \in SeqNums, ack \in SeqNums :
                LET t == tcb[e]
                    r == HandleAck(t, [ NewTCPHeader(t.RemotePort, t.LocalPort) EXCEPT
                                          !.SequenceNumber = seq, !.AckNumber = ack,
                                          !.Flags = FlagACK ])
                IN  /\ r.err = "" <=> (ack = t.SendNext /\ seq = t.RecvNext)
                    /\ r.err = "" =>
                         /\ r.tcb.State = StateEstablished
                         /\ Counters(r.tcb) = Counters(t)
                    /\ ack # t.SendNext => r.err = "invalid ACK number in final ACK"
                    /\ (ack = t.SendNext /\ seq # t.RecvNext) =>
                         r.err = "invalid sequence number in final ACK"
                    /\ r.err # "" => r.tcb.State = StateSynReceived /\ r.tcb = t
    /\ (lastOp.op = "HandleAck" /\ lastOp.err = "") =>
         /\ lastOp.pre = StateSynReceived
         /\ tcb[lastOp.e].State = StateEstablished
         /\ lastOp.in.AckNumber = tcb[lastOp.e].SendNext
         /\ lastOp.in.SequenceNumber = tcb[lastOp.e].RecvNext

\* C22 witness: the final ACK has been accepted by a TCB whose counters sit
\* on both sides of the wrap
C22_Witness ==
    /\ lastOp.op = "HandleAck" /\ lastOp.err = "" /\ lastOp.pre = StateSynReceived
    /\ Driven.State = StateEstablished
    /\ Driven.SendUnack = SeqMod - 2 /\ Driven.SendNext = SeqMod - 1
    /\ Driven.RecvNext = 1

----------------------------------------------------------------------------
(* Properties of data transfer *)

\* r is what Send must return for the non-empty payload data at time clock
Sent(t, r, data, clock) ==
    /\ r.err = ""
    /\ r.out.SequenceNumber = t.SendNext
    /\ r.out.AckNumber = t.RecvNext
    /\ r.out.Flags = FlagACK + FlagPSH
    /\ \A flag \in AllFlags : HasFlag(r.out, flag) <=> flag \in {FlagACK, FlagPSH}
    /\ r.out.WindowSize = t.RecvWindow
    /\ r.tcb = [ t EXCEPT
                   !.SendBuffer = t.SendBuffer \o data,
                   !.RetransmissionQueue =
                       t.RetransmissionQueue \o
                       << [ Header |-> r.out, Data |-> data,
                            SentTime |-> clock, Attempts |-> 1 ] >>,
                   !.SendNext = (t.SendNext + Len(data)) % SeqMod ]

\* C23: Send in ESTABLISHED with a non-empty payload of length n emits a
\* segment with seq = SendNext before the call, ack = RecvNext, exactly the
\* flags ACK and PSH, and window = RecvWindow; it appends the payload to
\* SendBuffer, appends exactly one entry (that header and payload, attempts
\* 1) to the retransmission queue, advances SendNext by n modulo 2^32, and
\* changes nothing else; with an empty payload it fails and changes
\* nothing.  The segment of a send that follows starts where this one ends.
C23_Send ==
    /\ \A e \in Endpoints :
         tcb[e].State = StateEstablished =>
            LET t == tcb[e]
            IN  /\ Send(t, << >>, now).err = "cannot send empty data"
                /\ Send(t, << >>, now).tcb = t
                /\ Send(t, << >>, now).out = NoHeader
                /\ \A data \in Payloads :
                     LET r == Send(t, data, now)
                     IN  /\ Sent(t, r, data, now)
                         /\ \A more \in Payloads :
                              LET following == Send(r.tcb, more, now)
                              IN  /\ Sent(r.tcb, following, more, now)
                                  /\ following.out.SequenceNumber =
                                       (r.out.SequenceNumber + Len(data)) % SeqMod
    /\ (lastOp.op = "Send" /\ lastOp.err = "") =>
         LET t == tcb[lastOp.e]
             q == t.RetransmissionQueue
         IN  /\ lastOp.pre = StateEstablished /\ t.State = StateEstablished
             /\ obs.data # << >>
             /\ t.SendNext = (lastOp.out.SequenceNumber + Len(obs.data)) % SeqMod
             /\ q # << >>
             /\ q[Len(q)].Header = lastOp.out /\ q[Len(q)].Data = obs.data
             /\ q[Len(q)].Attempts = 1
             /\ Len(t.SendBuffer) >= Len(obs.data)
             /\ SubSeq(t.SendBuffer, Len(t.SendBuffer) - Len(obs.data) + 1,
                       Len(t.SendBuffer)) = obs.data

\* C23 witness: a second one-byte Send, whose segment takes sequence number
\* 0 right after the first one took the last number
C23_Witness ==
    /\ lastOp.op = "Send" /\ lastOp.err = ""
    /\ lastOp.out.SequenceNumber = 0
    /\ Driven.SendNext = 1
    /\ Driven.SendBuffer = <<1, 1>>
    /\ Len(Driven.RetransmissionQueue) = 2
    /\ Driven.RetransmissionQueue[1].Header.SequenceNumber = SeqMod - 1
    /\ Driven.RetransmissionQueue[2].Header.SequenceNumber = 0

\* C24, the call: Receive in ESTABLISHED accepts a segment if and only if
\* its sequence number equals RecvNext (a segment ahead of or behind it is
\* rejected and nothing of it is kept); on acceptance the payload is
\* appended to RecvBuffer, RecvNext advances by its length, and the ACK
\* returned has seq = SendNext, ack = the new RecvNext and the ACK flag.
C24_ReceiveCall ==
    \A e \in Endpoints :
        tcb[e].State = StateEstablished =>
           \A seq \in SeqNums, data \in Payloads \cup { << >> } :
               LET t == tcb[e]
                   r == Receive(t, [ NewTCPHeader(t.RemotePort, t.LocalPort) EXCEPT
                                       !.SequenceNumber = seq, !.AckNumber = t.SendNext,
                                       !.Flags = FlagACK + FlagPSH ],
                                data)
               IN  /\ r.err = "" <=> seq = t.RecvNext
                   /\ r.err = "" =>
                        /\ r.tcb = [ t EXCEPT
                                       !.RecvBuffer = t.RecvBuffer \o data,
                                       !.RecvNext = (t.RecvNext + Len(data)) % SeqMod ]
                        /\ r.data = data
                        /\ r.out.SequenceNumber = t.SendNext
                        /\ r.out.AckNumber = r.tcb.RecvNext
                        /\ r.out.Flags = FlagACK
                   /\ r.err # "" =>
                        /\ r.err = "out-of-order packet"
                        /\ r.tcb = t /\ r.out = NoHeader /\ r.data = << >>

\* C24: the call as above in every state, and RecvBuffer is always the
\* concatenation, in acceptance order, of the payloads accepted since the
\* last clear: an accepted Receive appends its payload, ClearReceiveBuffer
\* empties the buffer, and no other call touches it.
C24_Receive ==
    /\ [] C24_ReceiveCall
    /\ [][ \A e \in Endpoints :
             tcb'[e].RecvBuffer =
                IF lastOp'.e # e THEN tcb[e].RecvBuffer
                ELSE CASE lastOp'.op = "Receive" -> tcb[e].RecvBuffer \o obs'.data
                       [] lastOp'.op = "ClearReceiveBuffer" -> << >>
                       [] OTHER -> tcb[e].RecvBuffer ]_vars

\* C24 witness: a second payload has been accepted after the application
\* cleared the buffer, which now holds that payload alone; the segment
\* ahead of RecvNext and the one behind it are both rejected
C24_Witness ==
    /\ lastOp.op = "Receive" /\ lastOp.err = ""
    /\ Accepted("client") = 2
    /\ tcb["client"].RecvBuffer = <<1>>
    /\ obs.data = <<1>>
    /\ \A seq \in { Plus(tcb["client"].RecvNext, 1), Plus(tcb["client"].RecvNext, SeqMod - 1) } :
         Receive(tcb["client"],
                 [ NewTCPHeader(ServerPort, ClientPort) EXCEPT !.SequenceNumber = seq ],
                 <<1>>).err # ""

\* the window of t does not cross the wrap, and neither does an entry
NoWrap(t) ==
    /\ t.SendUnack <= t.SendNext
    /\ \A i \in 1 .. Len(t.RetransmissionQueue) :
         LET entry == t.RetransmissionQueue[i]
         IN  entry.Header.SequenceNumber + SpanLen(entry) <= t.SendNext

\* ackNumber covers the whole span of entry (no wrap: plain numbers)
FullyCovered(entry, ackNumber) ==
    ackNumber >= entry.Header.SequenceNumber + SpanLen(entry)

\* C25, the call: without wrap, ReceiveAck in ESTABLISHED accepts an ack
\* number with SendUnack <= ack <= SendNext, sets SendUnack to it and
\* removes exactly the entries it fully covers (an ack inside an entry's
\* span keeps the entry); a duplicate ack (ack = SendUnack) is accepted and
\* changes nothing; an ack below SendUnack or above SendNext is rejected.
C25_ReceiveAckCall ==
    \A e \in Endpoints :
        (tcb[e].State = StateEstablished /\ NoWrap(tcb[e])) =>
           \A ack \in SeqNums :
               LET t == tcb[e]
                   r == ReceiveAck(t, [ NewTCPHeader(t.RemotePort, t.LocalPort) EXCEPT
                                          !.SequenceNumber = t.RecvNext, !.AckNumber = ack,
                                          !.Flags = FlagACK ])
               IN  /\ r.err = "" <=> (t.SendUnack <= ack /\ ack <= t.SendNext)
                   /\ r.err = "" =>
                        /\ r.tcb = [ t EXCEPT
                                       !.SendUnack = ack,
                                       !.RetransmissionQueue =
                                           SelectSeq(t.RetransmissionQueue,
                                                     LAMBDA entry : ~FullyCovered(entry, ack)) ]
                        /\ \A i \in 1 .. Len(t.RetransmissionQueue) :
                             LET entry == t.RetransmissionQueue[i]
                             IN  (entry.Header.SequenceNumber < ack /\ ~FullyCovered(entry, ack))
                                   => \E j \in 1 .. Len(r.tcb.RetransmissionQueue) :
                                          r.tcb.RetransmissionQueue[j] = entry
                   /\ ack = t.SendUnack => r.err = "" /\ r.tcb = t
                   /\ r.err # "" => r.err = "invalid ACK number" /\ r.tcb = t

\* C25: the call as above in every state; hence, without wrap, SendUnack
\* never decreases while the TCB is ESTABLISHED.
C25_ReceiveAck ==
    /\ [] C25_ReceiveAckCall
    /\ [][ \A e \in Endpoints :
             (/\ tcb[e].State = StateEstablished /\ tcb'[e].State = StateEstablished
              /\ NoWrap(tcb[e]) /\ NoWrap(tcb'[e]))
                => tcb'[e].SendUnack >= tcb[e].SendUnack ]_vars

\* C25 witness: an ack inside the span of the two-byte segment has been
\* accepted; SendUnack has advanced into the span and the entry is kept
C25_Witness ==
    /\ lastOp.op = "ReceiveAck" /\ lastOp.err = ""
    /\ NoWrap(tcb["client"])
    /\ tcb["client"].SendUnack = 2 /\ lastOp.in.AckNumber = 2
    /\ tcb["client"].SendNext = 3
    /\ Len(tcb["client"].RetransmissionQueue) = 1
    /\ tcb["client"].RetransmissionQueue[1].Header.SequenceNumber = 1
    /\ tcb["client"].RetransmissionQueue[1].Data = <<2, 3>>

----------------------------------------------------------------------------
(* Properties of the close handshake, call by call *)

\* r is a FIN sent by t: FIN and ACK set, seq = SendNext before the call,
\* ack = RecvNext, SendNext advanced by exactly one
FinSent(t, r) ==
    /\ r.err = ""
    /\ HasFlag(r.out, FlagFIN) /\ HasFlag(r.out, FlagACK)
    /\ r.out.Flags = FlagFIN + FlagACK
    /\ r.out.SequenceNumber = t.SendNext
    /\ r.out.AckNumber = t.RecvNext
    /\ r.tcb.SendNext = (t.SendNext + 1) % SeqMod
    /\ r.tcb.SendUnack = t.SendUnack /\ r.tcb.RecvNext = t.RecvNext

\* C26: a locally sent FIN consumes exactly one sequence number: Close from
\* ESTABLISHED and CloseFromCloseWait from CLOSE_WAIT each emit a segment
\* with the FIN and ACK flags, seq = SendNext before the call and
\* ack = RecvNext, advance SendNext by exactly 1, and move to FIN_WAIT_1 and
\* LAST_ACK respectively; Close also appends the FIN to the retransmission
\* queue.
C26_LocalFin ==
    /\ \A e \in Endpoints :
         LET t == tcb[e]
         IN  /\ t.State = StateEstablished =>
                  LET r == Close(t, now)
                  IN  /\ FinSent(t, r)
                      /\ r.tcb.State = StateFinWait1
                      /\ r.tcb.RetransmissionQueue =
                           t.RetransmissionQueue \o
                           << [ Header |-> r.out, Data |-> << >>,
                                SentTime |-> now, Attempts |-> 1 ] >>
             /\ t.State = StateCloseWait =>
                  LET r == CloseFromCloseWait(t)
                  IN  /\ FinSent(t, r)
                      /\ r.tcb.State = StateLastAck
    /\ (lastOp.op = "Close" /\ lastOp.err = "") =>
         LET t == tcb[lastOp.e]
             q == t.RetransmissionQueue
         IN  /\ lastOp.pre = StateEstablished /\ t.State = StateFinWait1
             /\ t.SendNext = (lastOp.out.SequenceNumber + 1) % SeqMod
             /\ q # << >> /\ q[Len(q)].Header = lastOp.out /\ q[Len(q)].Data = << >>
    /\ (lastOp.op = "CloseFromCloseWait" /\ lastOp.err = "") =>
         LET t == tcb[lastOp.e]
         IN  /\ lastOp.pre = StateCloseWait /\ t.State = StateLastAck
             /\ t.SendNext = (lastOp.out.SequenceNumber + 1) % SeqMod
             /\ lastOp.out.Flags = FlagFIN + FlagACK
             /\ lastOp.out.AckNumber = t.RecvNext

\* C26 witness: Close has sent a FIN that took the last sequence number
\* (SendNext wrapped to 0) and that is now the last entry of the queue
C26_Witness ==
    /\ lastOp.op = "Close" /\ lastOp.err = ""
    /\ Driven.State = StateFinWait1
    /\ lastOp.out.SequenceNumber = SeqMod - 1
    /\ Driven.SendNext = 0
    /\ Driven.RetransmissionQueue # << >>
    /\ HasFlag(Driven.RetransmissionQueue[Len(Driven.RetransmissionQueue)].Header, FlagFIN)

\* the states in which a FIN from the peer is expected, and where it leads
FinExpected == { StateEstablished, StateFinWait1, StateFinWait2 }

AfterFin(state) ==
    CASE state = StateEstablished -> StateCloseWait
      [] state = StateFinWait1    -> StateClosing
      [] state = StateFinWait2    -> StateTimeWait

\* a segment from the peer of t with the given numbers
FromPeer(t, seq, ack, flags) ==
    [ NewTCPHeader(t.RemotePort, t.LocalPort) EXCEPT
        !.SequenceNumber = seq, !.AckNumber = ack, !.Flags = flags ]

\* C27: HandleFin succeeds exactly when the state is ESTABLISHED, FIN_WAIT_1
\* or FIN_WAIT_2 and the incoming sequence number equals RecvNext; on
\* success it advances RecvNext by 1, emits an ACK with seq = SendNext and
\* ack = the new RecvNext, and moves ESTABLISHED to CLOSE_WAIT, FIN_WAIT_1 to
\* CLOSING, FIN_WAIT_2 to TIME_WAIT; in the other eight states it fails as
\* an unexpected FIN whatever the sequence number is, so a repeated FIN
\* after the first was accepted is rejected.
C27_HandleFin ==
    /\ \A e \in Endpoints :
         \A seq \in SeqNums :
             LET t == tcb[e]
                 r == HandleFin(t, FromPeer(t, seq, t.SendNext, FlagFIN + FlagACK))
             IN  /\ r.err = "" <=> (t.State \in FinExpected /\ seq = t.RecvNext)
                 /\ r.err = "" =>
                      /\ r.tcb = [ t EXCEPT !.RecvNext = (t.RecvNext + 1) % SeqMod,
                                            !.State = AfterFin(t.State) ]
                      /\ r.out.Flags = FlagACK
                      /\ r.out.SequenceNumber = t.SendNext
                      /\ r.out.AckNumber = r.tcb.RecvNext
                 /\ t.State \notin FinExpected => r.err = "unexpected FIN"
                 /\ (t.State \in FinExpected /\ seq # t.RecvNext) =>
                      r.err = "unexpected sequence number in FIN"
                 /\ r.err # "" => r.tcb = t /\ r.out = NoHeader
    /\ (lastOp.op = "HandleFin" /\ lastOp.err = "") =>
         /\ lastOp.pre \in FinExpected
         /\ tcb[lastOp.e].State = AfterFin(lastOp.pre)
         /\ HandleFin(tcb[lastOp.e], lastOp.in).err = "unexpected FIN"
         /\ \A seq \in SeqNums :
              HandleFin(tcb[lastOp.e],
                        FromPeer(tcb[lastOp.e], seq, 0, FlagFIN)).err = "unexpected FIN"

\* C27 witness: a FIN that took the last sequence number has been accepted
\* in FIN_WAIT_2 (RecvNext wrapped to 0, state TIME_WAIT)
C27_Witness ==
    /\ lastOp.op = "HandleFin" /\ lastOp.err = ""
    /\ lastOp.pre = StateFinWait2
    /\ Driven.State = StateTimeWait
    /\ lastOp.in.SequenceNumber = SeqMod - 1
    /\ Driven.RecvNext = 0
    /\ lastOp.out.AckNumber = 0

\* the states in which the acknowledgment of the own FIN is expected, and
\* where it leads
FinAckExpected == { StateFinWait1, StateClosing, StateLastAck }

AfterFinAck(state) ==
    CASE state = StateFinWait1 -> StateFinWait2
      [] state = StateClosing  -> StateTimeWait
      [] state = StateLastAck  -> StateClosed

\* C28: HandleFinAck succeeds exactly when the state is FIN_WAIT_1, CLOSING
\* or LAST_ACK and the incoming ack number equals SendNext; on success it
\* sets SendUnack = ack number (so SendUnack = SendNext) and moves
\* FIN_WAIT_1 to FIN_WAIT_2, CLOSING to TIME_WAIT, LAST_ACK to CLOSED; in the
\* other eight states it fails as an unexpected ACK, and an ack that does
\* not cover the FIN (ack number # SendNext) is rejected without changing
\* the state.
C28_HandleFinAck ==
    /\ \A e \in Endpoints :
         \A ack \in SeqNums :
             LET t == tcb[e]
                 r == HandleFinAck(t, FromPeer(t, t.RecvNext, ack, FlagACK))
             IN  /\ r.err = "" <=> (t.State \in FinAckExpected /\ ack = t.SendNext)
                 /\ r.err = "" =>
                      /\ r.tcb = [ t EXCEPT !.SendUnack = ack,
                                            !.State = AfterFinAck(t.State) ]
                      /\ r.tcb.SendUnack = r.tcb.SendNext
                 /\ t.State \notin FinAckExpected => r.err = "unexpected FIN ACK"
                 /\ (t.State \in FinAckExpected /\ ack # t.SendNext) =>
                      r.err = "invalid ACK number for FIN"
                 /\ r.err # "" => r.tcb = t
    /\ (lastOp.op = "HandleFinAck" /\ lastOp.err = "") =>
         /\ lastOp.pre \in FinAckExpected
         /\ tcb[lastOp.e].State = AfterFinAck(lastOp.pre)
         /\ tcb[lastOp.e].SendUnack = lastOp.in.AckNumber
         /\ tcb[lastOp.e].SendUnack = tcb[lastOp.e].SendNext

\* C28 witness: the acknowledgment of a FIN that took the last sequence
\* number has closed a TCB in LAST_ACK (SendUnack = SendNext = 0)
C28_Witness ==
    /\ lastOp.op = "HandleFinAck" /\ lastOp.err = ""
    /\ lastOp.pre = StateLastAck
    /\ Driven.State = StateClosed
    /\ lastOp.in.AckNumber = 0
    /\ Driven.SendUnack = 0 /\ Driven.SendNext = 0

----------------------------------------------------------------------------
(* Properties of the retransmission timer of a connection *)

\* entry as a scan that returns it leaves it
Restamped(entry) == [ entry EXCEPT !.SentTime = now, !.Attempts = entry.Attempts + 1 ]

\* r is what CheckRetransmissions must return on t, whose settings are
\* timeout and maxAttempts: the due entries restamped, in queue order, and
\* a TCB that differs from t in the stamps of those entries only
Scanned(t, r, timeout, maxAttempts) ==
    LET q   == t.RetransmissionQueue
        due == { i \in 1 .. Len(q) : Due(q[i], timeout, maxAttempts) }
    IN  /\ r.err = ""
        /\ Len(r.entries) = Cardinality(due)
        /\ \A k \in 1 .. Len(r.entries) : r.entries[k] = Restamped(q[Kth(due, k)])
        /\ r.tcb = [ t EXCEPT !.RetransmissionQueue =
                       [ i \in 1 .. Len(q) |-> IF i \in due THEN Restamped(q[i]) ELSE q[i] ] ]
        /\ Len(r.tcb.RetransmissionQueue) = Len(q)
        /\ \A i \in 1 .. Len(q) :
             /\ r.tcb.RetransmissionQueue[i].Header = q[i].Header
             /\ r.tcb.RetransmissionQueue[i].Data = q[i].Data
             /\ q[i].Attempts >= maxAttempts => r.tcb.RetransmissionQueue[i] = q[i]

\* C29, the call: CheckRetransmissions succeeds in every state; it returns
\* what the queue's timeout scan returns for the TCB's RetransmissionTimeout
\* and MaxRetransmissionAttempts, as they are and as the setters would set
\* them, and changes nothing of the TCB but SentTime and Attempts of the
\* entries it returns (an exhausted entry stays as it is).
C29_CheckCall ==
    \A e \in Endpoints :
        LET t == tcb[e]
        IN  /\ Scanned(t, CheckRetransmissions(t, now),
                       t.RetransmissionTimeout, t.MaxRetransmissionAttempts)
            /\ \A timeout \in QTimeouts, maxAttempts \in QMaxAttempts :
                 LET set == SetMaxRetransmissionAttempts(
                                SetRetransmissionTimeout(t, timeout), maxAttempts)
                 IN  /\ set = [ t EXCEPT !.RetransmissionTimeout = timeout,
                                         !.MaxRetransmissionAttempts = maxAttempts ]
                     /\ Scanned(set, CheckRetransmissions(set, now), timeout, maxAttempts)

\* C29: the call as above in every state, and every CheckRetransmissions the
\* application makes returns the entries that were due under the settings
\* in force and leaves state, counters, buffers, settings and queue
\* membership as they were.
C29_CheckRetransmissions ==
    /\ [] C29_CheckCall
    /\ [][ (lastOp'.op = "CheckRetransmissions" /\ now' = now) =>
             LET e == lastOp'.e
             IN  Scanned(tcb[e], [ tcb |-> tcb'[e], entries |-> obs'.entries, err |-> lastOp'.err ],
                         tcb[e].RetransmissionTimeout, tcb[e].MaxRetransmissionAttempts) ]_vars

\* C29 witness: with settings changed through the setters, the data entry
\* has run out of attempts; then a FIN was sent (state FIN_WAIT_1) and a
\* CheckRetransmissions has returned the FIN alone, leaving the data entry,
\* older than the timeout, as it was
C29_Witness ==
    /\ lastOp.op = "CheckRetransmissions" /\ lastOp.err = ""
    /\ tcb["client"].State = StateFinWait1
    /\ tcb["client"].RetransmissionTimeout = 0
    /\ tcb["client"].MaxRetransmissionAttempts = 2
    /\ Len(tcb["client"].RetransmissionQueue) = 2
    /\ Len(obs.entries) = 1
    /\ obs.entries[1] = tcb["client"].RetransmissionQueue[2]
    /\ HasFlag(obs.entries[1].Header, FlagFIN)
    /\ obs.entries[1].Attempts = 2 /\ obs.entries[1].SentTime = now
    /\ tcb["client"].RetransmissionQueue[1].Attempts = 2
    /\ now - tcb["client"].RetransmissionQueue[1].SentTime > 0

----------------------------------------------------------------------------
(* Properties of the headers the operations emit *)

\* header is a header t emits: the ports of t, the fixed header length, the
\* window of t, and nothing in the fields no operation sets
WellFormed(t, header) ==
    /\ header # NoHeader
    /\ header.SourcePort = t.LocalPort
    /\ header.DestinationPort = t.RemotePort
    /\ header.DataOffset = 5
    /\ HeaderLength(header) = 20
    /\ header.WindowSize = t.RecvWindow
    /\ header.Checksum = 0 /\ header.UrgentPointer = 0 /\ header.Reserved = 0

\* what the operations that emit a header return on t, each fed a segment
\* with the numbers t expects
Emitted(t) ==
    { StartClient(t, isn, now) : isn \in ISNs }
    \cup { HandleSyn(t, FromPeer(t, seq, 0, FlagSYN), isn) : seq \in ISNs, isn \in ISNs }
    \cup { HandleSynAck(t, FromPeer(t, seq, t.SendNext, FlagSYN + FlagACK)) : seq \in ISNs }
    \cup { Send(t, data, now) : data \in Payloads }
    \cup { [ tcb |-> r.tcb, out |-> r.out, err |-> r.err ] :
             r \in { Receive(t, FromPeer(t, t.RecvNext, t.SendNext, FlagACK + FlagPSH), data) :
                       data \in Payloads } }
    \cup { Close(t, now), CloseFromCloseWait(t),
           HandleFin(t, FromPeer(t, t.RecvNext, t.SendNext, FlagFIN + FlagACK)) }

\* C30: every header emitted by a handshake or data-transfer operation (SYN,
\* SYN-ACK, ACK, data, FIN) has source port = the TCB's local port,
\* destination port = the TCB's remote port, data offset 5 (header length
\* 20 bytes), window size = the TCB's RecvWindow, and checksum, urgent
\* pointer and reserved equal to zero; so has every header kept in the
\* retransmission queue.
C30_EmittedHeaders ==
    /\ \A e \in Endpoints :
         /\ \A r \in Emitted(tcb[e]) : r.err = "" => WellFormed(tcb[e], r.out)
         /\ \A i \in 1 .. Len(tcb[e].RetransmissionQueue) :
              WellFormed(tcb[e], tcb[e].RetransmissionQueue[i].Header)
    /\ (/\ lastOp.op \in { "StartClient", "HandleSyn", "HandleSynAck", "Send", "Receive",
                          "Close", "HandleFin", "CloseFromCloseWait" }
        /\ lastOp.err = "") =>
         WellFormed(tcb[lastOp.e], lastOp.out)
    /\ lastOp.op \in { "HandleAck", "ReceiveAck", "HandleFinAck", "CheckRetransmissions",
                       "Queries" } =>
         lastOp.out = NoHeader

\* C30 witness: the server's TCB (local port 9090) has emitted the ACK of a
\* FIN, after a SYN-ACK and a data segment
C30_Witness ==
    /\ lastOp.op = "HandleFin" /\ lastOp.e = "server" /\ lastOp.err = ""
    /\ lastOp.out.Flags = FlagACK
    /\ lastOp.out.SourcePort = ServerPort /\ lastOp.out.DestinationPort = ClientPort
    /\ tcb["server"].SendBuffer # << >>
    /\ tcb["server"].RetransmissionQueue # << >>

----------------------------------------------------------------------------
(* Properties of the state machine as a whole *)

\* the transitions of the state machine, each with the operation that makes it
Transitions ==
    { << StateClosed,      StateSynSent,     "StartClient" >>,
      << StateListen,      StateSynReceived, "HandleSyn" >>,
      << StateSynSent,     StateEstablished, "HandleSynAck" >>,
      << StateSynReceived, StateEstablished, "HandleAck" >>,
      << StateEstablished, StateFinWait1,    "Close" >>,
      << StateEstablished, StateCloseWait,   "HandleFin" >>,
      << StateFinWait1,    StateFinWait2,    "HandleFinAck" >>,
      << StateFinWait1,    StateClosing,     "HandleFin" >>,
      << StateFinWait2,    StateTimeWait,    "HandleFin" >>,
      << StateClosing,     StateTimeWait,    "HandleFinAck" >>,
      << StateCloseWait,   StateLastAck,     "CloseFromCloseWait" >>,
      << StateLastAck,     StateClosed,      "HandleFinAck" >> }

\* what every operation returns on t when it is fed a segment with the
\* numbers t expects
Outcomes(t) ==
    Emitted(t)
    \cup { HandleAck(t, FromPeer(t, t.RecvNext, t.SendNext, FlagACK)),
           HandleFinAck(t, FromPeer(t, t.RecvNext, t.SendNext, FlagACK)),
           ReceiveAck(t, FromPeer(t, t.RecvNext, t.SendNext, FlagACK)) }
    \cup { [ tcb |-> CheckRetransmissions(t, clock).tcb, out |-> NoHeader, err |-> "" ] :
             clock \in now .. (now + t.RetransmissionTimeout + 1) }

\* C31, the transitions that exist: from each state, the operations can
\* make each transition listed for it and no other change of state.
C31_TransitionsExist ==
    \A e \in Endpoints :
        LET t == tcb[e]
        IN  { r.tcb.State : r \in { o \in Outcomes(t) : o.err = "" /\ o.tcb.State # t.State } }
              = { tr[2] : tr \in { x \in Transitions : x[1] = t.State } }

\* C31: over any sequence of handshake and data-transfer operations every
\* change of state is one of the twelve transitions, made by the operation
\* listed with it; Send, Receive, ReceiveAck and CheckRetransmissions never
\* change the state, and no operation enters LISTEN.
C31_StateMachine ==
    /\ [] C31_TransitionsExist
    /\ [][ \A e \in Endpoints :
             /\ tcb'[e].State # tcb[e].State =>
                  /\ lastOp'.e = e /\ lastOp'.err = ""
                  /\ << tcb[e].State, tcb'[e].State, lastOp'.op >> \in Transitions
                  /\ tcb'[e].State # StateListen
             /\ (lastOp'.e = e /\ lastOp'.op \in { "Send", "Receive", "ReceiveAck",
                                                   "CheckRetransmissions" }) =>
                  tcb'[e].State = tcb[e].State ]_vars

\* C31 witness: a FIN has arrived in FIN_WAIT_1, before the acknowledgment
\* of the own FIN (the transition to CLOSING)
C31_Witness ==
    /\ lastOp.op = "HandleFin" /\ lastOp.err = ""
    /\ lastOp.pre = StateFinWait1
    /\ Driven.State = StateClosing
    /\ { tr[2] : tr \in { x \in Transitions : x[1] = StateClosing } } = { StateTimeWait }

\* header is held by t for retransmission, and a CheckRetransmissions made
\* once its timeout has passed returns it
Held(t, header) ==
    /\ \E i \in 1 .. Len(t.RetransmissionQueue) :
         t.RetransmissionQueue[i].Header = header
    /\ \E k \in 1 .. Len(CheckRetransmissions(t, now + t.RetransmissionTimeout + 1).entries) :
         CheckRetransmissions(t, now + t.RetransmissionTimeout + 1).entries[k].Header = header

\* C32: every emitted segment that consumes sequence space is held for
\* retransmission: right after StartClient (SYN), HandleSyn (SYN-ACK), Send
\* (data), Close and CloseFromCloseWait (FIN) the emitted header is in the
\* TCB's retransmission queue, and CheckRetransmissions returns it after a
\* timeout.
C32_HeldForRetransmission ==
    (/\ lastOp.op \in { "StartClient", "HandleSyn", "Send", "Close", "CloseFromCloseWait" }
     /\ lastOp.err = "")
        => Held(tcb[lastOp.e], lastOp.out)

\* C33: SendUnack is the oldest unacknowledged sequence number: right after
\* a successful HandleSynAck (client) or HandleAck (server), when the peer
\* has acknowledged the SYN and nothing else was sent, SendUnack equals
\* SendNext on that TCB.
C33_UnackAfterHandshake ==
    (/\ lastOp.op \in { "HandleSynAck", "HandleAck" }
     /\ lastOp.err = "")
        => /\ tcb[lastOp.e].State = StateEstablished
           /\ lastOp.in.AckNumber = tcb[lastOp.e].SendNext
           /\ tcb[lastOp.e].SendUnack = tcb[lastOp.e].SendNext

\* C34: the two ends stay synchronized: whenever no segment is in flight,
\* each end's SendNext equals the other end's RecvNext, through the open
\* handshake, data exchanges in both directions and the close sequences.
C34_EndsSynchronized ==
    NothingInFlight =>
        \A e \in Endpoints : tcb[e].SendNext = tcb[Peer(e)].RecvNext

\* C35: the gating queries agree with the operations they gate: in every
\* state CanSendData is true if and only if Send with a non-empty payload
\* does not fail on its state check, and CanReceiveData is true if and only
\* if Receive of a segment whose sequence number equals RecvNext succeeds.
C35_QueriesGate ==
    \A e \in Endpoints :
        LET t == tcb[e]
        IN  /\ \A data \in Payloads :
                 CanSendData(t) <=> Send(t, data, now).err \notin InvalidState
            /\ \A data \in Payloads :
                 CanReceiveData(t) <=>
                    Receive(t, FromPeer(t, t.RecvNext, t.SendNext, FlagACK + FlagPSH),
                            data).err = ""

C37_DuplicateAcknowledged ==
    ( /\ lastOp.op = "Receive"
      /\ lastOp.e = "server"
      /\ chan["client"] = << >>
      /\ \E i \in 1 .. Len(tcb["client"].RetransmissionQueue) :
            LET entry == tcb["client"].RetransmissionQueue[i]
            IN  /\ entry.Header = lastOp.in
                /\ entry.Attempts > 1
                /\ entry.Attempts < tcb["client"].MaxRetransmissionAttempts
                /\ SeqEnd(entry) = tcb["server"].RecvNext
                /\ IsPrefix(tcb["client"].SendBuffer, tcb["server"].RecvBuffer) )
    => lastOp.out # NoHeader

\* C38: the open handshake survives a lost SYN-ACK: when the server's SYN-ACK
\* was lost and the client resent its SYN after CheckRetransmissions returned
\* it (attempt limit not reached), the server handles the repeated SYN or
\* resends its SYN-ACK, so that both ends eventually reach ESTABLISHED.
C38_RepeatedSynAnswered ==
    ( /\ lastOp.op = "HandleSyn"
      /\ lastOp.e = "server"
      /\ lastOp.pre = StateSynReceived
      /\ tcb["client"].State = StateSynSent
      /\ chan["client"] = << >>
      /\ \E i \in 1 .. Len(tcb["client"].RetransmissionQueue) :
            LET entry == tcb["client"].RetransmissionQueue[i]
            IN  /\ entry.Header = lastOp.in
                /\ entry.Attempts > 1
                /\ entry.Attempts < tcb["client"].MaxRetransmissionAttempts )
    => \/ lastOp.out # NoHeader
       \/ tcb["server"].RetransmissionQueue # << >>

\* C39: TinySocket.Send appends to the send buffer only while the socket
\* state is ESTABLISHED, also when Close runs concurrently on another
\* goroutine: no interleaving of Send with Close lets Send return success and
\* append data after the state has become CLOSED.
C39_NoSendAfterClose ==
    [][ \A g \in Goroutines :
          ( /\ gor[g].pc = "append"
            /\ gor'[g].pc = "idle"
            /\ gor'[g].err = ""
            /\ sock'.sendBuffer # sock.sendBuffer )
          => sock.state # StateClosed ]_vars

====
